---- MODULE Spec2Model ----
(***************************************************************************)
(* Misim: instruction-set simulator of the prototype CPU.                  *)
(* Model of prototype::core::Core<std::uint32_t, MemorySize, SyscallTable> *)
(* together with the memory, register file, ALU, decoder, tracer and bit   *)
(* utilities it is built from.                                             *)
(*                                                                         *)
(* A machine word (std::uint32_t) is the pair <<hi, lo>> of its two 16-bit *)
(* halves, value hi * 2^16 + lo, so that every operation keeps the full    *)
(* 32-bit width and wraps modulo 2^32 as the C++ unsigned type does.       *)
(***************************************************************************)
EXTENDS Integers, Sequences, FiniteSets, TLC

\* ------------------------------------------------------------------------
\* Bounds of the model
\* ------------------------------------------------------------------------
MemorySize == 50
MaxProgLen == 2
MaxSteps == 6

\* ------------------------------------------------------------------------
\* 32-bit unsigned arithmetic on <<hi, lo>> pairs
\* ------------------------------------------------------------------------
\* sizeof(std::uint32_t) * CHAR_BIT and sizeof(std::uintmax_t) * CHAR_BIT
WordBits == 32
UintMaxBits == 64

Half == 2 ^ (WordBits \div 2)
HalfMax == Half - 1

Pow2(k) == 2 ^ k

Zero == <<0, 0>>
One == <<0, 1>>
AllOnes == <<HalfMax, HalfMax>>

\* the word whose value is the natural number n < 2^31
W(n) == <<n \div Half, n % Half>>

\* the natural number held by a word below 2^31
WInt(w) == w[1] * Half + w[2]

WLt(a, b) == a[1] < b[1] \/ (a[1] = b[1] /\ a[2] < b[2])
WLe(a, b) == a = b \/ WLt(a, b)

WAdd(a, b) ==
    LET s == a[2] + b[2]
    IN  <<(a[1] + b[1] + (s \div Half)) % Half, s % Half>>

WNot(a) == <<HalfMax - a[1], HalfMax - a[2]>>

WSub(a, b) == WAdd(a, WAdd(WNot(b), One))

RECURSIVE And16(_, _)
And16(x, y) ==
    IF x = 0 \/ y = 0 THEN 0
    ELSE (x % 2) * (y % 2) + 2 * And16(x \div 2, y \div 2)

WAnd(a, b) == <<And16(a[1], b[1]), And16(a[2], b[2])>>
WOr(a, b) == <<a[1] + b[1] - And16(a[1], b[1]), a[2] + b[2] - And16(a[2], b[2])>>
WXor(a, b) == <<a[1] + b[1] - 2 * And16(a[1], b[1]), a[2] + b[2] - 2 * And16(a[2], b[2])>>

\* a << k and a >> k for a shift count 0 <= k < 32
WShl(a, k) ==
    IF k >= 16 THEN <<(a[2] * Pow2(k - 16)) % Half, 0>>
    ELSE <<(a[1] * Pow2(k) + ((a[2] * Pow2(k)) \div Half)) % Half, (a[2] * Pow2(k)) % Half>>

WShr(a, k) ==
    IF k >= 16 THEN <<0, a[1] \div Pow2(k - 16)>>
    ELSE <<a[1] \div Pow2(k), ((a[1] % Pow2(k)) * Pow2(16 - k) + (a[2] \div Pow2(k))) % Half>>

\* the full 32-bit product of two 16-bit halves
Mul16(x, y) ==
    LET p0 == (x % 256) * y
        p1 == (x \div 256) * y
        t  == p0 + (p1 % 256) * 256
    IN  <<(t \div Half) + (p1 \div 256), t % Half>>

WMul(a, b) ==
    LET p == Mul16(a[2], b[2])
        c == Mul16(a[1], b[2])[2] + Mul16(a[2], b[1])[2]
    IN  <<(p[1] + c) % Half, p[2]>>

WBit(a, i) == IF i >= 16 THEN (a[1] \div Pow2(i - 16)) % 2 ELSE (a[2] \div Pow2(i)) % 2

Word == (0..HalfMax) \X (0..HalfMax)

\* restoring long division: one step takes bit i of the dividend into the
\* remainder and produces bit i of the quotient
DivStep(a, b, i) ==
    [p \in [quot : Word, rem : Word] |->
        LET carry == WBit(p.rem, 31) = 1
            r2    == WAdd(WShl(p.rem, 1), <<0, WBit(a, i)>>)
            take  == carry \/ WLe(b, r2)
        IN  [quot |-> IF take THEN WAdd(p.quot, WShl(One, i)) ELSE p.quot,
             rem  |-> IF take THEN WSub(r2, b) ELSE r2]]

\* st[n] is the quotient and remainder after the n highest bits of a
DivMod(a, b) ==
    LET st[n \in 0..WordBits] ==
            IF n = 0 THEN [quot |-> Zero, rem |-> Zero]
            ELSE DivStep(a, b, WordBits - n)[st[n - 1]]
    IN  st[WordBits]

WDiv(a, b) == DivMod(a, b).quot
WMod(a, b) == DivMod(a, b).rem

\* static_cast to an unsigned type of the given number of bits
Trunc(a, bits) ==
    IF bits >= 32 THEN a
    ELSE IF bits >= 16 THEN <<a[1] % Pow2(bits - 16), a[2]>>
    ELSE <<0, a[2] % Pow2(bits)>>

\* ------------------------------------------------------------------------
\* Bit utilities (prototype::freefunc).  The template parameter uint is the
\* width `bits` of the operand; a std::variant<bool, std::domain_error> is
\* the record [ok, val], ok = FALSE standing for the domain_error.
\* ------------------------------------------------------------------------
Failure == [ok |-> FALSE, val |-> FALSE]
Success(v) == [ok |-> TRUE, val |-> v]

checkBitInrange(bits, position) == position >= 0 /\ position < bits

testBit(bits, n, position) ==
    IF ~checkBitInrange(bits, position) THEN Failure
    ELSE Success(WAnd(n, Trunc(WShl(One, position), bits)) # Zero)

testBitAll(bits, n) ==
    LET n_size == bits - 1
        result == testBit(bits, n, n_size)
        mask   == WSub(WShl(One, n_size), One)
    IN  IF bits = UintMaxBits /\ result.ok /\ ~result.val THEN Success(FALSE)
        ELSE IF bits = UintMaxBits /\ ~result.ok THEN result
        ELSE Success(WAnd(n, mask) = mask)

\* testBitAll(n, last_nbit): the overload that tests the lowest last_nbit + 1 bits
testBitAllLastNbit(bits, n, last_nbit) ==
    IF ~checkBitInrange(bits, last_nbit) THEN Failure
    ELSE IF ~checkBitInrange(bits, last_nbit + 1) THEN testBitAll(bits, n)
    ELSE LET mask == WSub(WShl(One, last_nbit + 1), One)
         IN  Success(WAnd(n, mask) = mask)

testBitAny(n) == n # Zero

testBitNone(n) == ~testBitAny(n)

\* the new value of n, or n itself when the position is out of range
setBit(bits, n, position) ==
    IF ~checkBitInrange(bits, position) THEN [ok |-> FALSE, n |-> n]
    ELSE [ok |-> TRUE, n |-> WOr(n, Trunc(WShl(One, position), bits))]

setBitEvery(bits, n) == WOr(n, Trunc(AllOnes, bits))

\* resetBit without the test of the bit: the bit is inverted
resetBitUntested(bits, n, position) ==
    IF ~checkBitInrange(bits, position) THEN [ok |-> FALSE, n |-> n]
    ELSE [ok |-> TRUE, n |-> WXor(n, Trunc(WShl(One, position), bits))]

resetBit(bits, n, position) ==
    IF ~checkBitInrange(bits, position) THEN [ok |-> FALSE, n |-> n]
    ELSE IF ~testBit(bits, n, position).ok THEN [ok |-> FALSE, n |-> n]
    ELSE IF ~testBit(bits, n, position).val THEN [ok |-> TRUE, n |-> n]
    ELSE [ok |-> TRUE, n |-> WXor(n, Trunc(WShl(One, position), bits))]

flipBit(bits, n, position) ==
    IF ~checkBitInrange(bits, position) THEN [ok |-> FALSE, n |-> n]
    ELSE [ok |-> TRUE, n |-> WXor(n, Trunc(WShl(One, position), bits))]

flipBitEvery(bits, n) == Trunc(WNot(n), bits)

\* widening to at least 32 bits leaves the value unchanged
promote(n) == n

\* ------------------------------------------------------------------------
\* Memory (prototype::memory::Memory<std::uint32_t, MemorySize>)
\* ------------------------------------------------------------------------
Addresses == 0..(MemorySize - 1)

memCheckAddressInrange(address) == WLe(Zero, address) /\ WLt(address, W(MemorySize))

\* a write that stores in the last slot before it refuses the address
memWriteThenCheck(m, data, address) ==
    IF ~memCheckAddressInrange(address)
    THEN [ok |-> FALSE, mem |-> [m EXCEPT ![MemorySize - 1] = data]]
    ELSE [ok |-> TRUE, mem |-> [m EXCEPT ![WInt(address)] = data]]

memWrite(m, data, address) ==
    IF ~memCheckAddressInrange(address) THEN [ok |-> FALSE, mem |-> m]
    ELSE [ok |-> TRUE, mem |-> [m EXCEPT ![WInt(address)] = data]]

memRead(m, address) ==
    IF ~memCheckAddressInrange(address) THEN [ok |-> FALSE, val |-> Zero]
    ELSE [ok |-> TRUE, val |-> m[WInt(address)]]

\* ------------------------------------------------------------------------
\* Register file (prototype::register_file)
\* ------------------------------------------------------------------------
R0 == 0
R1 == 1
SP == 13
LR == 14
PC == 15
GPRegs == 0..15

N == 0
Z == 1
C == 2
V == 3
Flags == {N, Z, C, V}
PsrBits == 8

getProgramStatus(m_psr, flag_name) == testBit(PsrBits, m_psr, flag_name).val

setProgramStatus(m_psr, flag_name, value) ==
    IF value THEN setBit(PsrBits, m_psr, flag_name).n
    ELSE resetBit(PsrBits, m_psr, flag_name).n

clearPsrValue == Zero

\* ------------------------------------------------------------------------
\* Decoder (prototype::decode)
\* ------------------------------------------------------------------------
Rt == 0
It == 1
Ut == 2
St == 3
Jt == 4

ADD == 0
UMUL == 1
UDIV == 2
UMOL == 3
AND == 4
ORR == 5
XOR == 6
SHL == 7
SHR == 8
RTL == 9
RTR == 10
NOT == 11
LDR == 12
STR == 13
PUSH == 14
POP == 15
JMP == 16
JZ == 17
JN == 18
JC == 19
JV == 20
JZN == 21
SYSCALL == 22

\* DefaultEncoding: the bit fields of an instruction word
m_op_type == [m_start_idx |-> 0, m_length |-> 4]
m_op_code == [m_start_idx |-> 4, m_length |-> 8]
m_Rd == [m_start_idx |-> 12, m_length |-> 4]
m_Rm == [m_start_idx |-> 16, m_length |-> 4]
m_Rn == [m_start_idx |-> 20, m_length |-> 4]
m_imm == [m_start_idx |-> 20, m_length |-> 12]

\* Instruction::field_size_type: the width of the member that holds a field
field_size_type(Size) == IF Size <= 8 THEN 8 ELSE IF Size <= 16 THEN 16 ELSE 32

\* a mask one bit shorter than the field
makeMaskOneShort(mask_length) ==
    WShr(setBitEvery(WordBits, Zero), WordBits - mask_length + 1)

makeMask(mask_length) ==
    LET mask == setBitEvery(WordBits, Zero)
    IN  IF mask_length > WordBits THEN mask
        ELSE WShr(mask, WordBits - mask_length)

extract(instruction, field) ==
    WInt(Trunc(WAnd(WShr(instruction, field.m_start_idx), makeMask(field.m_length)),
               field_size_type(field.m_length)))

decode(instruction) ==
    [m_type |-> extract(instruction, m_op_type),
     m_code |-> extract(instruction, m_op_code),
     m_Rd   |-> extract(instruction, m_Rd),
     m_Rn   |-> extract(instruction, m_Rn),
     m_Rm   |-> extract(instruction, m_Rm),
     m_imm  |-> extract(instruction, m_imm)]

\* ------------------------------------------------------------------------
\* ALU (prototype::alu::ALU), instantiated for std::uint32_t
\* ------------------------------------------------------------------------
ALUOpCodes == {"ADD", "UMUL", "UDIV", "UMOL", "PASS", "AND", "ORR", "XOR",
               "COMP", "SHL", "SHR", "RTL", "RTR"}

\* ALUOutput<T>{}: no flag, result 0
ALUOutputDefault == [m_flags |-> {}, m_result |-> Zero]

\* a flag set that never reports a zero result
getProgramStatusFlagsSignOnly(R) ==
    IF testBit(WordBits, R, WordBits - 1).val THEN {N} ELSE {}

\* N and Z, from the result only
getProgramStatusFlags(R) ==
    (IF testBit(WordBits, R, WordBits - 1).val THEN {N} ELSE {})
    \cup (IF testBitNone(R) /\ R = Zero THEN {Z} ELSE {})

makeOutput(R) == [m_flags |-> getProgramStatusFlags(R), m_result |-> R]

checkCarry(A, B, R) == WLt(R, A) /\ WLt(R, B)

\* an overflow test that does not compare the signs of the operands
checkOverflowLoose(A, B, R) ==
    testBit(WordBits, A, WordBits - 1).val # testBit(WordBits, R, WordBits - 1).val

checkOverflow(A, B, R) ==
    LET msb == WordBits - 1
        ra  == testBit(WordBits, A, msb).val
        rb  == testBit(WordBits, B, msb).val
        rr  == testBit(WordBits, R, msb).val
    IN  IF ra # rb THEN FALSE ELSE ra # rr

add(A, B) ==
    LET R == WAdd(A, B)
    IN  [m_flags |-> (IF checkCarry(A, B, R) THEN {C} ELSE {})
                     \cup (IF checkOverflow(A, B, R) THEN {V} ELSE {})
                     \cup getProgramStatusFlags(R),
         m_result |-> R]

\* a product that forgets the high halves of the operands
umulLowHalves(A, B) == makeOutput(Mul16(A[2], B[2]))

umul(A, B) == makeOutput(Trunc(WMul(promote(A), promote(B)), WordBits))

\* a division that does not test the divisor
udivNoGuard(A, B) == makeOutput(WDiv(A, B))

udiv(A, B) ==
    IF testBitNone(B) /\ B = Zero THEN ALUOutputDefault
    ELSE makeOutput(WDiv(A, B))

\* a remainder that does not test the divisor
umolNoGuard(A, B) == makeOutput(WMod(A, B))

umol(A, B) ==
    IF testBitNone(B) /\ B = Zero THEN ALUOutputDefault
    ELSE makeOutput(WMod(A, B))

pass(A) == makeOutput(A)

and_(A, B) == makeOutput(WAnd(A, B))

orr(A, B) == makeOutput(WOr(A, B))

\* an exclusive or that answers with the complement
xorComplemented(A, B) == makeOutput(WNot(WXor(A, B)))

xor_(A, B) == makeOutput(WXor(A, B))

comp(A) == makeOutput(flipBitEvery(WordBits, A))

\* A << B and A >> B are undefined in C++ when B >= 32: the builds either
\* use the low five bits of the count ("wrap") or shift everything out
\* ("zero"); ub is the outcome the build produces
ShiftOutcomes == {"wrap", "zero"}

shl(A, B, ub) ==
    IF WLt(B, W(WordBits)) THEN makeOutput(WShl(A, WInt(B)))
    ELSE IF ub = "wrap" THEN makeOutput(WShl(A, B[2] % WordBits))
    ELSE makeOutput(Zero)

shr(A, B, ub) ==
    IF WLt(B, W(WordBits)) THEN makeOutput(WShr(A, WInt(B)))
    ELSE IF ub = "wrap" THEN makeOutput(WShr(A, B[2] % WordBits))
    ELSE makeOutput(Zero)

\* std::rotl / std::rotr reduce the count modulo the width
rotl(A, s) ==
    LET r == s % WordBits
    IN  IF r = 0 THEN A ELSE WOr(WShl(A, r), WShr(A, WordBits - r))

rotr(A, s) ==
    LET r == s % WordBits
    IN  IF r = 0 THEN A ELSE WOr(WShr(A, r), WShl(A, WordBits - r))

rtl(A, B) == makeOutput(rotl(A, B[2] % WordBits))

\* a right rotation that drops the bits shifted out
rtrShiftsOnly(A, B) == makeOutput(WShr(A, B[2] % WordBits))

rtr(A, B) == makeOutput(rotr(A, B[2] % WordBits))

execute(alu_input, ub) ==
    LET A == alu_input.m_operands[1]
        B == alu_input.m_operands[2]
    IN  CASE alu_input.m_opcode = "ADD"  -> add(A, B)
          [] alu_input.m_opcode = "UMUL" -> umul(A, B)
          [] alu_input.m_opcode = "UDIV" -> udiv(A, B)
          [] alu_input.m_opcode = "UMOL" -> umol(A, B)
          [] alu_input.m_opcode = "PASS" -> pass(A)
          [] alu_input.m_opcode = "AND"  -> and_(A, B)
          [] alu_input.m_opcode = "ORR"  -> orr(A, B)
          [] alu_input.m_opcode = "XOR"  -> xor_(A, B)
          [] alu_input.m_opcode = "COMP" -> comp(A)
          [] alu_input.m_opcode = "SHL"  -> shl(A, B, ub)
          [] alu_input.m_opcode = "SHR"  -> shr(A, B, ub)
          [] alu_input.m_opcode = "RTL"  -> rtl(A, B)
          [] alu_input.m_opcode = "RTR"  -> rtr(A, B)
          [] OTHER                       -> ALUOutputDefault

\* ------------------------------------------------------------------------
\* Core (prototype::core::Core): state
\* ------------------------------------------------------------------------
VARIABLES
    segment_config,       \* the segment map handed to the constructor
    p_tracer,             \* TRUE iff a tracer is attached (m_tracer != nullptr)
    instructions,         \* the words handed to instructionLoader
    data,                 \* the words handed to dataLoader
    m_memory,             \* Memory::m_memory
    m_gp,                 \* Registers::m_gp
    m_psr,                \* Registers::m_psr
    m_segment,            \* Core::m_segment
    m_log_file,           \* Tracer::m_log_file: the entries written so far
    log_open,             \* whether m_log_file is still open
    m_instruction_count,  \* Tracer::m_instruction_count
    pc,                   \* where the program is: "start", "constructed",
                          \* "data_loaded", "running", "halted", "fatal"
    nfetch,               \* number of iterations of the loop of run() begun
    last,                 \* what the last iteration of the loop of run() did
    file,                 \* the lines of the binary file handed to the Loader
    m_file_stream,        \* Loader::m_file_stream: the lines not read yet
    m_state,              \* StateSelector::m_state: the name of the current state
    returned              \* the last call made on a part by itself (Memory::write,
                          \* Memory::read, testBitAll), and what it returned

vars == <<segment_config, p_tracer, instructions, data, m_memory, m_gp, m_psr,
          m_segment, m_log_file, log_open, m_instruction_count, pc, nfetch, last,
          file, m_file_stream, m_state, returned>>

CS == "CS"
DS == "DS"
SS == "SS"
ES == "ES"
segment_registers == {CS, DS, SS, ES}

SegmentRange(start, end) == [m_start |-> start, m_end |-> end]

\* an empty std::unordered_map
EmptyMap == [sr \in {} |-> SegmentRange(0, 0)]

\* a range check that forgets the upper end of the segment
checkAddressInrangeNoUpper(address, segment) ==
    WLe(W(segment.m_start), address)

\* Core::checkAddressInrange
checkAddressInrange(address, segment) ==
    WLe(W(segment.m_start), address) /\ WLe(address, W(segment.m_end))

\* ------------------------------------------------------------------------
\* Core::initialize
\* ------------------------------------------------------------------------
\* a range test that forgets to compare the two ends
validRangeAnyOrder(rng) ==
    rng.m_start >= 0 /\ rng.m_end < MemorySize

validRange(rng) ==
    rng.m_end >= rng.m_start /\ rng.m_start >= 0 /\ rng.m_end < MemorySize

\* an overlap test that lets two ranges share an end point
checkOverlapStrict(rng1, rng2) ==
    rng1.m_start < rng2.m_end /\ rng2.m_start < rng1.m_end

checkOverlap(rng1, rng2) ==
    rng1.m_start <= rng2.m_end /\ rng2.m_start <= rng1.m_end

\* the ranges of the map, sorted by m_start
sortedRanges(config) ==
    LET n     == Cardinality(DOMAIN config)
        order == CHOOSE f \in [1..n -> DOMAIN config] :
                     /\ \A i, j \in 1..n : i # j => f[i] # f[j]
                     /\ \A i, j \in 1..n :
                            i < j => config[f[i]].m_start <= config[f[j]].m_start
    IN  [i \in 1..n |-> config[order[i]]]

RECURSIVE accumulate(_, _)
accumulate(ranges, i) ==
    IF ranges = <<>> THEN i
    ELSE accumulate(Tail(ranges), i + (Head(ranges).m_end - Head(ranges).m_start) + 1)

initialize(config) ==
    IF ~(segment_registers \subseteq DOMAIN config) THEN FALSE
    ELSE IF ~(\A sr \in DOMAIN config : validRange(config[sr])) THEN FALSE
    ELSE LET ranges == sortedRanges(config)
         IN  IF \E i \in 2..Len(ranges) : checkOverlap(ranges[i - 1], ranges[i])
             THEN FALSE
             ELSE IF accumulate(ranges, 0) > MemorySize THEN FALSE
             ELSE TRUE

\* ------------------------------------------------------------------------
\* Tracer
\* ------------------------------------------------------------------------
ErrorEntry == [kind |-> "ERROR", count |-> 0, binary |-> Zero]

\* Tracer::log<ERROR, Exception>: write the entry, close the file, throw
tracerLogError(logfile) == [log |-> Append(logfile, ErrorEntry), open |-> FALSE]

\* Core::traceLog<ERROR, Exception>: goes through the tracer when there is
\* one; the exception is thrown in both cases
traceLog(tracer, logfile, open) ==
    IF tracer THEN tracerLogError(logfile)
    ELSE [log |-> logfile, open |-> open]

\* Tracer::getInstruction finds no label for a type, code or register
noTranslation(instruction) ==
    \/ instruction.m_type \notin Rt..Jt
    \/ instruction.m_code \notin ADD..SYSCALL
    \/ instruction.m_Rd \notin GPRegs
    \/ instruction.m_Rm \notin GPRegs
    \/ instruction.m_Rn \notin GPRegs

\* Core::generateTrace -> Tracer::generateTrace.  The heading is written
\* before getInstruction is evaluated; when getInstruction finds no label it
\* logs an ERROR and throws out of a noexcept function, which ends the
\* process
generateTrace(tracer, logfile, open, count, binary, instruction, gp, psr, memory) ==
    IF ~tracer THEN [ok |-> TRUE, log |-> logfile, open |-> open, count |-> count]
    ELSE IF noTranslation(instruction)
    THEN [ok    |-> FALSE,
          log   |-> Append(Append(logfile,
                        [kind |-> "HEADING", count |-> count, binary |-> binary]),
                        ErrorEntry),
          open  |-> FALSE,
          count |-> count]
    ELSE [ok    |-> TRUE,
          log   |-> Append(logfile, [kind |-> "TRACE", count |-> count, binary |-> binary,
                                     registers |-> gp, psr |-> psr, memory |-> memory]),
          open  |-> open,
          count |-> count + 1]

\* ------------------------------------------------------------------------
\* Core: the steps of one instruction.  Each returns ok = FALSE where the
\* code calls traceLog<ERROR, ...>, which throws.
\* ------------------------------------------------------------------------
\* a fetch that advances PC by two
fetchSkipsOne(gp, memory, segment) ==
    IF ~checkAddressInrange(gp[PC], segment[CS])
    THEN [ok |-> FALSE, binary |-> Zero, gp |-> gp]
    ELSE LET instruction == memRead(memory, gp[PC])
         IN  IF instruction.ok
             THEN [ok |-> TRUE, binary |-> instruction.val,
                   gp |-> [gp EXCEPT ![PC] = WAdd(@, W(2))]]
             ELSE [ok |-> FALSE, binary |-> Zero, gp |-> gp]

\* a fetch that leaves PC on the word it read
fetchKeepsPC(gp, memory, segment) ==
    IF ~checkAddressInrange(gp[PC], segment[CS])
    THEN [ok |-> FALSE, binary |-> Zero, gp |-> gp]
    ELSE LET instruction == memRead(memory, gp[PC])
         IN  IF instruction.ok
             THEN [ok |-> TRUE, binary |-> instruction.val, gp |-> gp]
             ELSE [ok |-> FALSE, binary |-> Zero, gp |-> gp]

fetch(gp, memory, segment) ==
    IF ~checkAddressInrange(gp[PC], segment[CS])
    THEN [ok |-> FALSE, binary |-> Zero, gp |-> gp]
    ELSE LET instruction == memRead(memory, gp[PC])
         IN  IF instruction.ok
             THEN [ok |-> TRUE, binary |-> instruction.val,
                   gp |-> [gp EXCEPT ![PC] = WAdd(@, One)]]
             ELSE [ok |-> FALSE, binary |-> Zero, gp |-> gp]

makeALUInput(alu_opcode, operand1, operand2) ==
    [ok |-> TRUE, m_opcode |-> alu_opcode, m_operands |-> <<operand1, operand2>>]

ALUInputError == [ok |-> FALSE, m_opcode |-> "ADD", m_operands |-> <<Zero, Zero>>]

makeALUInputForRI(instruction, opcode, gp) ==
    CASE instruction.m_type = Rt ->
            makeALUInput(opcode, gp[instruction.m_Rm], gp[instruction.m_Rn])
      [] instruction.m_type = It ->
            makeALUInput(opcode, gp[instruction.m_Rm], W(instruction.m_imm))
      [] OTHER -> ALUInputError

generateALUInput(instruction, gp) ==
    IF instruction.m_type = Jt THEN ALUInputError
    ELSE CASE instruction.m_code = ADD  -> makeALUInputForRI(instruction, "ADD", gp)
           [] instruction.m_code = UMUL -> makeALUInputForRI(instruction, "UMUL", gp)
           [] instruction.m_code = UDIV -> makeALUInputForRI(instruction, "UDIV", gp)
           [] instruction.m_code = UMOL -> makeALUInputForRI(instruction, "UMOL", gp)
           [] instruction.m_code = AND  -> makeALUInputForRI(instruction, "AND", gp)
           [] instruction.m_code = ORR  -> makeALUInputForRI(instruction, "ORR", gp)
           [] instruction.m_code = XOR  -> makeALUInputForRI(instruction, "XOR", gp)
           [] instruction.m_code = SHL  -> makeALUInputForRI(instruction, "SHL", gp)
           [] instruction.m_code = SHR  -> makeALUInputForRI(instruction, "SHR", gp)
           [] instruction.m_code = RTL  -> makeALUInputForRI(instruction, "RTL", gp)
           [] instruction.m_code = RTR  -> makeALUInputForRI(instruction, "RTR", gp)
           [] instruction.m_code = NOT  -> makeALUInput("COMP", gp[instruction.m_Rm], Zero)
           [] instruction.m_code = LDR  -> makeALUInput("PASS", gp[instruction.m_Rm], Zero)
           [] instruction.m_code = STR  -> makeALUInput("PASS", gp[instruction.m_Rm], Zero)
           [] instruction.m_code = PUSH -> makeALUInput("ADD", gp[SP], AllOnes)
           [] instruction.m_code = POP  -> makeALUInput("ADD", gp[SP], One)
           [] OTHER -> ALUInputError

\* clear the PSR, then set every flag the ALU returned
RECURSIVE setFlags(_, _)
setFlags(psr, updated_flags) ==
    IF updated_flags = {} THEN psr
    ELSE LET flag == CHOOSE f \in updated_flags : TRUE
         IN  setFlags(setProgramStatus(psr, flag, TRUE), updated_flags \ {flag})

\* the flags are set without clearing the PSR first
updatePsrKeepsOld(updated_flags) == setFlags(m_psr, updated_flags)

updatePsr(updated_flags) == setFlags(clearPsrValue, updated_flags)

\* ------------------------------------------------------------------------
\* Syscalls (prototype::syscall::SyscallTable).  A handler returns
\* thrown = "none", or the exception that leaves it.
\* ------------------------------------------------------------------------
SyscallNumbers == {0, 1, 2}

welcome(memory, gp) == [thrown |-> "none", mem |-> memory]

\* reads memory[R0 .. R0 + R1): the reads succeed up to the end of memory
consoleOut(memory, gp) ==
    LET first == gp[R0]
        end   == WAdd(gp[R0], gp[R1])
    IN  IF ~WLt(first, end) THEN [thrown |-> "none", mem |-> memory]
        ELSE IF memCheckAddressInrange(first) /\ WLe(end, W(MemorySize))
        THEN [thrown |-> "none", mem |-> memory]
        ELSE [thrown |-> "out_of_range", mem |-> memory]

\* writes the characters of the line read at R0, R0 + 1, ...; a write outside
\* the memory fails and is ignored
RECURSIVE writeLine(_, _, _)
writeLine(memory, line, i) ==
    IF line = <<>> THEN memory
    ELSE writeLine(memWrite(memory, W(Head(line)), i).mem, Tail(line), WAdd(i, One))

consoleIn(memory, gp, line) ==
    IF WLt(gp[R1], W(Len(line))) THEN [thrown |-> "length_error", mem |-> memory]
    ELSE [thrown |-> "none", mem |-> writeLine(memory, line, gp[R0])]

\* a table that answers every unknown number with the handler of 0
syscallDefaultsToWelcome(imm, memory, gp, line) ==
    CASE imm = 1 -> consoleOut(memory, gp)
      [] imm = 2 -> consoleIn(memory, gp, line)
      [] OTHER   -> welcome(memory, gp)

\* m_syscall_table.at(imm)(memory, registers)
syscall(imm, memory, gp, line) ==
    CASE imm = 0 -> welcome(memory, gp)
      [] imm = 1 -> consoleOut(memory, gp)
      [] imm = 2 -> consoleIn(memory, gp, line)
      [] OTHER   -> [thrown |-> "out_of_range", mem |-> memory]

\* a jump taken whatever the condition
performJumpAlways(condition, dst, gp) == [gp EXCEPT ![PC] = W(dst)]

\* a jump that is taken when the condition does not hold
performJumpInverted(condition, dst, gp) ==
    IF ~condition THEN [gp EXCEPT ![PC] = W(dst)] ELSE gp

\* a jump that also leaves the return address in LR
performJumpAndLink(condition, dst, gp) ==
    IF condition THEN [gp EXCEPT ![PC] = W(dst), ![LR] = gp[PC]] ELSE gp

performJump(condition, dst, gp) ==
    IF condition THEN [gp EXCEPT ![PC] = W(dst)] ELSE gp

\* jump = FALSE: not a J-type instruction.  thrown = "logged": traceLog<ERROR>
\* threw; thrown = "length_error": consoleIn threw and nothing caught it
checkJump(instruction, gp, psr, memory, line) ==
    LET same(t) == [jump |-> TRUE, thrown |-> t, gp |-> gp, mem |-> memory]
        to(g)   == [jump |-> TRUE, thrown |-> "none", gp |-> g, mem |-> memory]
        imm     == instruction.m_imm
    IN  IF instruction.m_type # Jt
        THEN [jump |-> FALSE, thrown |-> "none", gp |-> gp, mem |-> memory]
        ELSE CASE instruction.m_code = JMP -> to(performJump(TRUE, imm, gp))
               [] instruction.m_code = JZ  ->
                     to(performJump(getProgramStatus(psr, Z), imm, gp))
               [] instruction.m_code = JN  ->
                     to(performJump(getProgramStatus(psr, N), imm, gp))
               [] instruction.m_code = JC  ->
                     to(performJump(getProgramStatus(psr, C), imm, gp))
               [] instruction.m_code = JV  ->
                     to(performJump(getProgramStatus(psr, V), imm, gp))
               [] instruction.m_code = JZN ->
                     to(performJump(getProgramStatus(psr, Z) \/ getProgramStatus(psr, N),
                                    imm, gp))
               [] instruction.m_code = SYSCALL ->
                     LET r == syscall(imm, memory, gp, line)
                     IN  IF r.thrown = "out_of_range" THEN same("logged")
                         ELSE [jump |-> TRUE, thrown |-> r.thrown, gp |-> gp, mem |-> r.mem]
               [] OTHER -> same("logged")

\* Core::memoryAccess, case by case
memoryAccessLDR(instruction, addr_val, gp, memory) ==
    LET result == memRead(memory, addr_val)
    IN  IF result.ok
        THEN [ok |-> TRUE, gp |-> [gp EXCEPT ![instruction.m_Rd] = result.val], mem |-> memory]
        ELSE [ok |-> FALSE, gp |-> gp, mem |-> memory]

\* a STR that does not look at what Memory::write returned
memoryAccessSTRIgnoresFailure(instruction, addr_val, gp, memory) ==
    [ok |-> TRUE, gp |-> gp, mem |-> memWrite(memory, gp[instruction.m_Rd], addr_val).mem]

\* a STR that writes the slot after the address
memoryAccessSTRNextSlot(instruction, addr_val, gp, memory) ==
    LET result == memWrite(memory, gp[instruction.m_Rd], WAdd(addr_val, One))
    IN  [ok |-> result.ok, gp |-> gp, mem |-> result.mem]

memoryAccessSTR(instruction, addr_val, gp, memory) ==
    LET result == memWrite(memory, gp[instruction.m_Rd], addr_val)
    IN  [ok |-> result.ok, gp |-> gp, mem |-> result.mem]

\* a PUSH that writes the word but leaves SP where it was
memoryAccessPUSHKeepsSP(instruction, addr_val, gp, memory, segment) ==
    IF ~checkAddressInrange(addr_val, segment[SS])
    THEN [ok |-> FALSE, gp |-> gp, mem |-> memory]
    ELSE [ok  |-> TRUE,
          gp  |-> gp,
          mem |-> memWrite(memory, gp[instruction.m_Rd], addr_val).mem]

\* a PUSH that only checks the address against the memory
memoryAccessPUSHUnchecked(instruction, addr_val, gp, memory, segment) ==
    IF ~memCheckAddressInrange(addr_val)
    THEN [ok |-> FALSE, gp |-> gp, mem |-> memory]
    ELSE [ok  |-> TRUE,
          gp  |-> [gp EXCEPT ![SP] = addr_val],
          mem |-> memWrite(memory, gp[instruction.m_Rd], addr_val).mem]

memoryAccessPUSH(instruction, addr_val, gp, memory, segment) ==
    IF ~checkAddressInrange(addr_val, segment[SS])
    THEN [ok |-> FALSE, gp |-> gp, mem |-> memory]
    ELSE [ok  |-> TRUE,
          gp  |-> [gp EXCEPT ![SP] = addr_val],
          mem |-> memWrite(memory, gp[instruction.m_Rd], addr_val).mem]

\* a POP that checks SP + 1 against the stack instead of SP
memoryAccessPOPOffByOne(instruction, addr_val, gp, memory, segment) ==
    IF ~checkAddressInrange(addr_val, segment[SS])
    THEN [ok |-> TRUE, gp |-> gp, mem |-> memory]
    ELSE LET result == memRead(memory, gp[SP])
         IN  IF result.ok
             THEN [ok  |-> TRUE,
                   gp  |-> [[gp EXCEPT ![instruction.m_Rd] = result.val]
                                EXCEPT ![SP] = addr_val],
                   mem |-> memory]
             ELSE [ok |-> FALSE, gp |-> gp, mem |-> memory]

\* a POP that does not look at the stack segment
memoryAccessPOPUnchecked(instruction, addr_val, gp, memory, segment) ==
    LET result == memRead(memory, gp[SP])
    IN  IF result.ok
        THEN [ok  |-> TRUE,
              gp  |-> [[gp EXCEPT ![instruction.m_Rd] = result.val] EXCEPT ![SP] = addr_val],
              mem |-> memory]
        ELSE [ok |-> FALSE, gp |-> gp, mem |-> memory]

memoryAccessPOP(instruction, addr_val, gp, memory, segment) ==
    IF ~checkAddressInrange(WSub(addr_val, One), segment[SS])
    THEN [ok |-> TRUE, gp |-> gp, mem |-> memory]
    ELSE LET result == memRead(memory, gp[SP])
         IN  IF result.ok
             THEN [ok  |-> TRUE,
                   gp  |-> [[gp EXCEPT ![instruction.m_Rd] = result.val]
                                EXCEPT ![SP] = addr_val],
                   mem |-> memory]
             ELSE [ok |-> FALSE, gp |-> gp, mem |-> memory]

memoryAccess(instruction, addr_val, gp, memory, segment) ==
    CASE instruction.m_code = LDR  -> memoryAccessLDR(instruction, addr_val, gp, memory)
      [] instruction.m_code = STR  -> memoryAccessSTR(instruction, addr_val, gp, memory)
      [] instruction.m_code = PUSH -> memoryAccessPUSH(instruction, addr_val, gp, memory, segment)
      [] instruction.m_code = POP  -> memoryAccessPOP(instruction, addr_val, gp, memory, segment)
      [] OTHER ->
            [ok |-> TRUE, gp |-> [gp EXCEPT ![instruction.m_Rd] = addr_val], mem |-> memory]

\* ------------------------------------------------------------------------
\* Inputs
\* ------------------------------------------------------------------------
\* the word with the given fields, laid out as DefaultEncoding says
Encode(type, code, Rd, Rm, imm) == <<Rm + imm * 16, type + code * 16 + Rd * 4096>>

Terminator == AllOnes
AlmostTerminator == <<32767, 65535>>

InstrWords ==
    { Encode(It, ADD, 1, 0, 1),        \* R1 <- R0 + 1
      Encode(It, ADD, PC, 0, 0),       \* PC <- R0 + 0
      Encode(Rt, ADD, 2, 1, 1),        \* R2 <- R1 + R1
      Encode(Ut, NOT, 1, 0, 0),        \* R1 <- ~R0
      Encode(Ut, STR, 1, 0, 0),        \* memory[R0] <- R1
      Encode(Ut, LDR, 1, 0, 0),        \* R1 <- memory[R0]
      Encode(St, PUSH, 1, 0, 0),       \* PUSH R1
      Encode(St, POP, 2, 0, 0),        \* POP R2
      Encode(St, POP, SP, 0, 0),       \* POP SP
      Encode(Jt, JMP, 0, 0, 7),
      Encode(Jt, JZ, 0, 0, 3),
      Terminator,
      AlmostTerminator }

\* words tried only at the head of a program or after one of Prefixes
ExtraWords ==
    { Encode(It, ADD, SP, 0, 0),       \* SP <- R0 + 0
      Encode(Ut, NOT, SP, 0, 0),       \* SP <- ~R0
      Encode(Rt, UMUL, 3, 1, 1),       \* R3 <- R1 * R1
      Encode(Rt, UDIV, 3, 1, 2),       \* R3 <- R1 / R2
      Encode(Rt, UMOL, 3, 1, 2),       \* R3 <- R1 % R2
      Encode(It, AND, 3, 1, 5),
      Encode(It, ORR, 3, 1, 5),
      Encode(It, XOR, 3, 1, 5),
      Encode(It, SHL, 3, 1, 33),       \* R3 <- R1 << 33
      Encode(It, SHR, 3, 1, 1),
      Encode(It, RTL, 3, 1, 4),
      Encode(It, RTR, 3, 1, 4),
      Encode(Ut, LDR, 2, 1, 0),        \* R2 <- memory[R1]
      Encode(Ut, STR, 2, 1, 0),        \* memory[R1] <- R2
      Encode(Jt, JMP, 0, 0, 3),
      Encode(Jt, JN, 0, 0, 3),
      Encode(Jt, JC, 0, 0, 3),
      Encode(Jt, JV, 0, 0, 3),
      Encode(Jt, JZN, 0, 0, 3),
      Encode(Jt, SYSCALL, 0, 0, 0),
      Encode(Jt, SYSCALL, 0, 0, 1),
      Encode(Jt, SYSCALL, 0, 0, 2),
      Encode(Jt, SYSCALL, 0, 0, 5),
      Encode(Ut, ADD, 1, 0, 0),        \* ADD under a type that has no operands for it
      Encode(7, NOT, 1, 0, 0),         \* NOT under an undefined type
      Encode(7, PUSH, 1, 0, 0),        \* PUSH under an undefined type
      Encode(St, PUSH, PC, 0, 0),      \* PUSH PC
      Encode(St, PUSH, SP, 0, 0),      \* PUSH SP
      Encode(St, POP, PC, 0, 0),       \* POP PC
      Encode(Rt, 200, 1, 0, 0),        \* undefined opcode
      Encode(Jt, ADD, 0, 0, 0) }       \* J-type with a non-jump opcode

\* what runs before an extra word: nothing, or one instruction that sets a
\* register or a flag
Prefixes ==
    { <<>>,
      << Encode(It, ADD, 1, 0, 1) >>,  \* R1 = 1
      << Encode(Ut, NOT, 1, 0, 0) >>,  \* R1 = 0xFFFFFFFF, N
      << Encode(Rt, ADD, 2, 1, 1) >>,  \* Z
      << Encode(St, PUSH, 1, 0, 0) >>, \* C
      << Encode(Ut, NOT, SP, 0, 0) >> }

RECURSIVE SeqsUpTo(_, _)
SeqsUpTo(S, n) ==
    IF n = 0 THEN {<<>>}
    ELSE LET shorter == SeqsUpTo(S, n - 1)
         IN  shorter \cup {Append(p, w) : p \in shorter, w \in S}

\* scenario S1: the words 0x00111060 and 0xFFFFFFFF
S1Program == << <<17, 4192>>, Terminator >>

\* scenario S3 with -5 in a register: R1 <- ~4 = 0xFFFFFFFB, R0 <- R1 + 5,
\* JZ 5, R2 <- R2 + 1, a filler, and the terminator at address 5
S3Program ==
    << Encode(It, ADD, 1, 0, 4), Encode(Ut, NOT, 1, 1, 0), Encode(It, ADD, 0, 1, 5),
       Encode(Jt, JZ, 0, 0, 5), Encode(It, ADD, 2, 2, 1), Terminator >>

\* scenario S3 with -5 as the 12-bit immediate 0xFFB: R1 <- 5,
\* R0 <- R1 + 0xFFB, JZ 5, R2 <- R2 + 1, a filler, and the terminator
S3Immediate ==
    << Encode(It, ADD, 1, 0, 5), Encode(It, ADD, 0, 1, 4091), Encode(Jt, JZ, 0, 0, 5),
       Encode(It, ADD, 2, 2, 1), Encode(It, ADD, 3, 3, 0), Terminator >>

\* programs worked out by hand
\* words whose op_code does not go with their op_type, or whose op_type or
\* op_code is outside the enumerations
MismatchedWords ==
    { Encode(Rt, NOT, 1, 0, 0), Encode(St, NOT, 1, 0, 0), Encode(It, STR, 1, 0, 0),
      Encode(Rt, LDR, 1, 0, 0), Encode(Rt, PUSH, 1, 0, 0), Encode(Ut, POP, 2, 0, 0),
      Encode(Ut, ADD, 1, 0, 1), Encode(St, XOR, 1, 0, 1), Encode(Jt, ADD, 1, 0, 1),
      Encode(Jt, PUSH, 1, 0, 0), Encode(Rt, JMP, 0, 0, 0), Encode(Ut, SYSCALL, 0, 0, 2),
      Encode(It, 23, 1, 0, 1), Encode(Jt, 23, 0, 0, 0), Encode(5, ADD, 1, 0, 1),
      Encode(5, PUSH, 1, 0, 0), Encode(7, JMP, 0, 0, 0) }

Scenarios ==
    { \* 0x80000000 + 0x80000000 sets Z, C and V; then JV
      << Encode(Ut, LDR, 1, 0, 0), Encode(Rt, ADD, 2, 1, 1), Encode(Jt, JV, 0, 0, 5),
         Encode(It, ADD, 3, 0, 1), Terminator >>,
      \* two pushes and two pops
      << Encode(It, ADD, 3, 0, 291), Encode(St, PUSH, 3, 0, 0), Encode(St, PUSH, 1, 0, 0),
         Encode(St, POP, 5, 0, 0), Encode(St, POP, 6, 0, 0), Terminator >>,
      \* a store read back through the same address register
      << Encode(Ut, NOT, 1, 0, 0), Encode(Ut, STR, 1, 0, 0), Encode(Ut, LDR, 2, 0, 0),
         Terminator >>,
      \* a division by R2 = 0 with N set, then an addition
      << Encode(Ut, NOT, 1, 0, 0), Encode(Rt, UDIV, 3, 1, 2), Encode(It, ADD, 4, 0, 7),
         Terminator >>,
      \* a remainder by the immediate 0, then an addition
      << Encode(Ut, NOT, 1, 0, 0), Encode(It, UMOL, 3, 1, 0), Encode(It, ADD, 4, 0, 7),
         Terminator >>,
      \* a division by the immediate 0 into PC, then an addition
      << Encode(It, UDIV, PC, 1, 0), Encode(It, ADD, 4, 0, 7), Terminator >>,
      \* a NOT under an undefined type, then the end of the program
      << Encode(7, NOT, 1, 0, 0), Terminator >>,
      \* the word of NOT R0 stored at address 4, two slots ahead of the
      \* STR when the program is loaded at 0, and at address 7
      << Encode(It, ADD, 1, 0, Encode(Ut, NOT, 0, 0, 0)[2]), Encode(It, ADD, 2, 0, 4),
         Encode(Ut, STR, 1, 2, 0) >>,
      << Encode(It, ADD, 1, 0, Encode(Ut, NOT, 0, 0, 0)[2]), Encode(It, ADD, 2, 0, 7),
         Encode(Ut, STR, 1, 2, 0) >>,
      S1Program, S3Program, S3Immediate }
    \cup { <<w, Terminator>> : w \in MismatchedWords }
    \cup { <<Encode(Ut, NOT, 1, 0, 0), w, Terminator>> : w \in MismatchedWords }
    \cup { p \o <<w>> : p \in Prefixes, w \in ExtraWords \cup InstrWords }

Programs == SeqsUpTo(InstrWords, MaxProgLen) \cup Scenarios

DataSets == { << <<32768, 0>>, W(5) >> }

\* the lines the console can deliver to consoleIn
Lines == { <<>>, <<104, 105>> }

\* scenario S1: the segment map of a memory of 50 words
S1Segments ==
    [sr \in segment_registers |->
        CASE sr = CS -> SegmentRange(0, 24) [] sr = DS -> SegmentRange(31, 47)
          [] sr = ES -> SegmentRange(48, 48) [] sr = SS -> SegmentRange(25, 30)]

RunSegments ==
    { [sr \in segment_registers |->
          CASE sr = CS -> SegmentRange(0, 5) [] sr = DS -> SegmentRange(6, 6)
            [] sr = SS -> SegmentRange(7, 8) [] sr = ES -> SegmentRange(9, 9)],
      [sr \in segment_registers |->
          CASE sr = CS -> SegmentRange(0, 2) [] sr = SS -> SegmentRange(3, 3)
            [] sr = DS -> SegmentRange(5, 6) [] sr = ES -> SegmentRange(7, 7)],
      [sr \in segment_registers |->
          CASE sr = DS -> SegmentRange(0, 1) [] sr = CS -> SegmentRange(2, 5)
            [] sr = SS -> SegmentRange(6, 6) [] sr = ES -> SegmentRange(7, 7)],
      S1Segments }

\* segment maps for the constructor alone: any subset of the four keys, each
\* with a range that starts in SegPoints and is empty, one, two or four slots long,
\* or runs past the end of the memory
SegPoints == 0..3

SegRanges ==
    { r \in [m_start : SegPoints, m_end : 0..4] : r.m_end - r.m_start \in {-1, 0, 1, 3} }
    \cup { SegmentRange(3, MemorySize) }

SegConfigs == UNION { [D -> SegRanges] : D \in SUBSET segment_registers }

\* ------------------------------------------------------------------------
\* Actions
\* ------------------------------------------------------------------------
\* no call has been made on a part by itself
NoCall == [op |-> "none", address |-> Zero, data |-> Zero, failed |-> FALSE, value |-> Zero]

NoLast ==
    [outcome |-> "none", stage |-> "", addr |-> Zero, binary |-> Zero,
     instruction |-> decode(Zero), gp |-> [r \in GPRegs |-> Zero], psr |-> Zero,
     mem |-> [a \in Addresses |-> Zero], alu |-> ALUOutputDefault,
     pushes |-> 0, pops |-> 0, sp_written |-> FALSE, straight |-> TRUE]

InitCore ==
    /\ m_memory = [a \in Addresses |-> Zero]
    /\ m_gp = [r \in GPRegs |-> Zero]
    /\ m_psr = Zero
    /\ m_segment = EmptyMap
    /\ m_log_file = <<>>
    /\ log_open = p_tracer
    /\ m_instruction_count = 0
    /\ pc = "start"
    /\ nfetch = 0
    /\ last = NoLast
    /\ file = <<>>
    /\ m_file_stream = <<>>
    /\ m_state = ""
    /\ returned = NoCall

Init ==
    /\ segment_config \in RunSegments
    /\ p_tracer \in BOOLEAN
    /\ instructions \in Programs
    /\ data \in DataSets
    /\ InitCore

\* SP placed on the last slot of the stack instead of just above it
placeRegistersOnStack(gp, segment) ==
    [[gp EXCEPT ![SP] = W(segment[SS].m_end)] EXCEPT ![PC] = W(segment[CS].m_start)]

\* the end of Core::initialize: SP just above the stack, PC at the first
\* instruction
placeRegisters(gp, segment) ==
    [[gp EXCEPT ![SP] = W(segment[SS].m_end + 1)] EXCEPT ![PC] = W(segment[CS].m_start)]

\* Core::Core(segment_config, p_tracer)
Construct ==
    /\ pc = "start"
    /\ IF initialize(segment_config)
       THEN /\ m_segment' = segment_config
            /\ m_gp' = placeRegisters(m_gp, segment_config)
            /\ pc' = "constructed"
            /\ UNCHANGED <<m_log_file, log_open>>
       ELSE LET err == traceLog(p_tracer, m_log_file, log_open)
            IN  /\ m_log_file' = err.log
                /\ log_open' = err.open
                /\ pc' = "fatal"
                /\ UNCHANGED <<m_segment, m_gp>>
    /\ UNCHANGED <<segment_config, p_tracer, instructions, data, m_memory, m_psr,
                   m_instruction_count, nfetch, last>>
    /\ UNCHANGED <<file, m_file_stream, m_state, returned>>

\* a loader that does not look at the limit
RECURSIVE iterativeLoaderHelperNoLimit(_, _, _, _)
iterativeLoaderHelperNoLimit(memory, idx, limit, container) ==
    IF container = <<>> THEN memory
    ELSE iterativeLoaderHelperNoLimit(memWrite(memory, Head(container), W(idx)).mem,
                                      idx + 1, limit, Tail(container))

RECURSIVE iterativeLoaderHelper(_, _, _, _)
iterativeLoaderHelper(memory, idx, limit, container) ==
    IF container = <<>> \/ idx > limit THEN memory
    ELSE iterativeLoaderHelper(memWrite(memory, Head(container), W(idx)).mem,
                               idx + 1, limit, Tail(container))

\* Core::dataLoader(data)
DataLoader ==
    /\ pc = "constructed"
    /\ m_memory' = iterativeLoaderHelper(m_memory, m_segment[DS].m_start,
                                         m_segment[DS].m_end, data)
    /\ pc' = "data_loaded"
    /\ UNCHANGED <<segment_config, p_tracer, instructions, data, m_gp, m_psr, m_segment,
                   m_log_file, log_open, m_instruction_count, nfetch, last>>
    /\ UNCHANGED <<file, m_file_stream, m_state, returned>>

\* Core::instructionLoader(instructions)
InstructionLoader ==
    /\ pc = "data_loaded"
    /\ m_memory' = iterativeLoaderHelper(m_memory, m_segment[CS].m_start,
                                         m_segment[CS].m_end, instructions)
    /\ pc' = "running"
    /\ UNCHANGED <<segment_config, p_tracer, instructions, data, m_gp, m_psr, m_segment,
                   m_log_file, log_open, m_instruction_count, nfetch, last>>
    /\ UNCHANGED <<file, m_file_stream, m_state, returned>>

\* The result of one iteration of the loop of Core::run: the state it leaves
\* and what it did.
fatal(stage, binary, gp, psr, mem, lg) ==
    [pc |-> "fatal", outcome |-> "fatal", stage |-> stage, gp |-> gp, psr |-> psr,
     mem |-> mem, log |-> lg.log, open |-> lg.open, count |-> m_instruction_count,
     binary |-> binary, alu |-> ALUOutputDefault]

\* generateTrace(binary, instruction) at the end of the iteration
retired(outcome, binary, instruction, gp, psr, mem, alu, tracer) ==
    LET trace == generateTrace(tracer, m_log_file, log_open, m_instruction_count,
                               binary, instruction, gp, psr, mem)
    IN
    [pc |-> IF trace.ok THEN "running" ELSE "fatal",
     outcome |-> IF trace.ok THEN outcome ELSE "fatal",
     stage |-> IF trace.ok THEN "" ELSE "trace",
     gp |-> gp, psr |-> psr, mem |-> mem, log |-> trace.log, open |-> trace.open,
     count |-> trace.count, binary |-> binary, alu |-> alu]

\* auto result = execute(instruction); memoryAccess(instruction, result);
executed(binary, instruction, gp, result, ma, err, tracer) ==
    IF ~ma.ok
    THEN fatal("memory", binary, ma.gp, updatePsr(result.m_flags), ma.mem, err)
    ELSE retired("exec", binary, instruction, ma.gp, updatePsr(result.m_flags), ma.mem, result,
                 tracer)

execution(binary, instruction, gp, alu_input, ub, err, tracer) ==
    IF ~alu_input.ok
    THEN fatal("alu_input", binary, gp, m_psr, m_memory, err)
    ELSE LET result == execute(alu_input, ub)
         IN  executed(binary, instruction, gp, result,
                      memoryAccess(instruction, result.m_result, gp, m_memory, m_segment),
                      err, tracer)

jumped(binary, instruction, gp, j, ub, err, tracer) ==
    IF ~j.jump
    THEN execution(binary, instruction, gp, generateALUInput(instruction, gp), ub, err, tracer)
    ELSE CASE j.thrown = "logged" -> fatal("jump", binary, j.gp, m_psr, j.mem, err)
           [] j.thrown = "length_error" ->
                 fatal("syscall", binary, j.gp, m_psr, j.mem,
                       [log |-> m_log_file, open |-> log_open])
           [] OTHER -> retired("jump", binary, instruction, j.gp, m_psr, j.mem, ALUOutputDefault,
                               tracer)

decoded(binary, instruction, gp, ub, line, err) ==
    jumped(binary, instruction, gp, checkJump(instruction, gp, m_psr, m_memory, line), ub, err,
           p_tracer)

fetched(f, ub, line, err) ==
    IF ~f.ok
    THEN fatal("fetch", f.binary, f.gp, m_psr, m_memory, err)
    ELSE IF testBitAll(WordBits, f.binary).val
    THEN [pc |-> "halted", outcome |-> "halt", stage |-> "", gp |-> f.gp, psr |-> m_psr,
          mem |-> m_memory, log |-> m_log_file, open |-> log_open,
          count |-> m_instruction_count, binary |-> f.binary, alu |-> ALUOutputDefault]
    ELSE decoded(f.binary, decode(f.binary), f.gp, ub, line, err)

iteration(ub, line) ==
    fetched(fetch(m_gp, m_memory, m_segment), ub, line,
            traceLog(p_tracer, m_log_file, log_open))

\* the iteration ran its instruction through memoryAccess (the tracer may
\* have ended the run after it)
completed(r) == r.outcome \in {"jump", "exec"} \/ r.stage = "trace"

\* history of the run: the PUSHes and POPs that moved SP so far, and whether
\* an instruction other than PUSH and POP with Rd = SP has completed
pushesAfter(r) ==
    IF completed(r) /\ decode(r.binary).m_code = PUSH THEN last.pushes + 1 ELSE last.pushes

popsAfter(r) ==
    IF /\ completed(r) /\ decode(r.binary).m_code = POP
       /\ checkAddressInrange(m_gp[SP], m_segment[SS])
    THEN last.pops + 1 ELSE last.pops

spWrittenAfter(r) ==
    \/ last.sp_written
    \/ /\ completed(r) /\ decode(r.binary).m_code \notin {PUSH, POP}
       /\ decode(r.binary).m_Rd = SP

\* history of the run: no J-type instruction has been fetched and no
\* instruction with Rd = PC has completed so far
straightAfter(r) ==
    /\ last.straight
    /\ decode(r.binary).m_type # Jt
    /\ ~(completed(r) /\ decode(r.binary).m_Rd = PC)

\* Core::run: one iteration of its loop
RunStep ==
    /\ pc = "running"
    /\ nfetch < MaxSteps
    /\ \E ub \in ShiftOutcomes, line \in Lines :
          \E r \in {iteration(ub, line)} :
              /\ pc' = r.pc
              /\ m_gp' = r.gp
              /\ m_psr' = r.psr
              /\ m_memory' = r.mem
              /\ m_log_file' = r.log
              /\ log_open' = r.open
              /\ m_instruction_count' = r.count
              /\ last' = [outcome |-> r.outcome, stage |-> r.stage, addr |-> m_gp[PC],
                          binary |-> r.binary, instruction |-> decode(r.binary),
                          gp |-> m_gp, psr |-> m_psr, mem |-> m_memory, alu |-> r.alu,
                          pushes |-> pushesAfter(r), pops |-> popsAfter(r),
                          sp_written |-> spWrittenAfter(r), straight |-> straightAfter(r)]
    /\ nfetch' = nfetch + 1
    /\ UNCHANGED <<segment_config, p_tracer, instructions, data, m_segment>>
    /\ UNCHANGED <<file, m_file_stream, m_state, returned>>

Next == Construct \/ DataLoader \/ InstructionLoader \/ RunStep

Spec == Init /\ [][Next]_vars

\* programs for the runs followed to their end: the empty program (the
\* zero words of the code segment are ADD R0, R0, R0), programs that halt,
\* programs that end fatally inside the code segment, and two that are not
\* straight (a jump to 0, and an ADD into PC)
EndingPrograms ==
    { <<>>, << Terminator >>, << AlmostTerminator >>,
      << Encode(Ut, NOT, 1, 0, 0), Terminator >>,
      << Encode(Ut, NOT, 1, 0, 0), Encode(Rt, ADD, 2, 1, 0), Encode(It, SHL, 2, 2, 40) >>,
      << Encode(St, PUSH, 1, 0, 0), Encode(St, PUSH, 1, 0, 0), Encode(St, PUSH, 1, 0, 0) >>,
      << Encode(St, POP, 1, 0, 0), Encode(St, PUSH, 1, 0, 0), Encode(St, POP, 2, 0, 0) >>,
      << Encode(Ut, NOT, 1, 0, 0), Encode(St, STR, 2, 1, 0) >>,
      << Encode(Ut, ADD, 1, 0, 1) >>,
      << Encode(7, NOT, 1, 0, 0), Terminator >>,
      << Encode(St, PUSH, PC, 0, 0), Terminator >>,
      << Encode(Jt, JMP, 0, 0, 0) >>,
      << Encode(It, ADD, PC, 0, 0) >> }

InitEnding ==
    /\ segment_config \in RunSegments
    /\ p_tracer \in BOOLEAN
    /\ instructions \in EndingPrograms
    /\ data \in DataSets
    /\ InitCore

\* the program goes on: the constructor returns or throws, the loaders
\* return, run() makes its next iteration.  Every step of Next is such a
\* step, and one can be taken exactly when Next can.
Advance ==
    \/ pc = "start" /\ pc' \in {"constructed", "fatal"} /\ nfetch' = nfetch
    \/ pc = "constructed" /\ pc' = "data_loaded" /\ nfetch' = nfetch
    \/ pc = "data_loaded" /\ pc' = "running" /\ nfetch' = nfetch
    \/ /\ pc = "running" /\ nfetch < MaxSteps
       /\ pc' \in {"running", "halted", "fatal"} /\ nfetch' = nfetch + 1

\* wain() constructs the Core, loads and calls run(), whose loop goes on
\* until it breaks or throws: no step that can be taken is put off forever
SpecFair == InitEnding /\ [][Next]_vars /\ WF_<<pc, nfetch>>(Advance)

\* the constructor alone, over the segment maps of SegConfigs
InitSeg ==
    /\ segment_config \in SegConfigs
    /\ p_tracer \in BOOLEAN
    /\ instructions = <<>>
    /\ data = <<>>
    /\ InitCore

NextSeg == Construct

SpecSeg == InitSeg /\ [][NextSeg]_vars

\* ------------------------------------------------------------------------
\* The ALU on chosen operands: the two operands are the data of the program,
\* which loads them into R1 and R2 and applies one R-type instruction to
\* them; for a rotation, the opposite rotation follows.
\* ------------------------------------------------------------------------
ALUSegments ==
    [sr \in segment_registers |->
        CASE sr = CS -> SegmentRange(0, 5) [] sr = DS -> SegmentRange(6, 7)
          [] sr = SS -> SegmentRange(8, 8) [] sr = ES -> SegmentRange(9, 9)]

LoadOperands ==
    << Encode(It, ADD, 4, 0, ALUSegments[DS].m_start),   \* R4 <- DS.start
       Encode(Ut, LDR, 1, 4, 0),                         \* R1 <- memory[R4]
       Encode(It, ADD, 4, 4, 1),                         \* R4 <- R4 + 1
       Encode(Ut, LDR, 2, 4, 0) >>                       \* R2 <- memory[R4]

\* R3 <- R1 op R2
ALUProgram(code) == LoadOperands \o << Encode(Rt, code, 3, 1, 2) >>

\* R3 <- R1 rotated left by R2; R5 <- R3 rotated right by R2
RotateProgram ==
    LoadOperands \o << Encode(Rt, RTL, 3, 1, 2), Encode(Rt, RTR, 5, 3, 2) >>

ALUCodes == {ADD, UMUL, UDIV, UMOL, AND, ORR, XOR, SHL, SHR, RTL, RTR}

OperandWords ==
    { Zero, One, <<0, 5>>, <<0, 33>>, <<0, HalfMax>>, <<1, 0>>, <<4660, 22136>>,
      <<32767, HalfMax>>, <<32768, 0>>, <<HalfMax, 1>>, AllOnes }

RotateCounts == { <<0, k>> : k \in 0..(WordBits - 1) }

InitALU ==
    /\ segment_config = ALUSegments
    /\ p_tracer = FALSE
    /\ \/ /\ instructions \in { ALUProgram(code) : code \in ALUCodes }
          /\ data \in { <<a, b>> : a \in OperandWords, b \in OperandWords }
       \/ /\ instructions = RotateProgram
          /\ data \in { <<a, k>> : a \in OperandWords, k \in RotateCounts }
    /\ InitCore

SpecALU == InitALU /\ [][Next]_vars

\* ------------------------------------------------------------------------
\* The decoder on single words: the word is the whole program, and the
\* first iteration of run() fetches and decodes it
\* ------------------------------------------------------------------------
DecodeHalves ==
    { 0, 1, 15, 16, 240, 255, 256, 3840, 4095, 4096, 4660, 22136, 32767, 32768,
      43981, 61440, HalfMax - 1, HalfMax }

DecodeWords == { <<hi, lo>> : hi \in DecodeHalves, lo \in DecodeHalves }

InitDecode ==
    /\ segment_config = ALUSegments
    /\ p_tracer = FALSE
    /\ instructions \in { <<w>> : w \in DecodeWords }
    /\ data \in DataSets
    /\ InitCore

SpecDecode == InitDecode /\ [][Next]_vars

\* ------------------------------------------------------------------------
\* Loader (prototype::core::Core::Loader).  A line is a sequence of
\* characters; the Loader fills the segment map, the data and the
\* instructions that wain hands to the Core.
\* ------------------------------------------------------------------------
MaxFileLen == 3

Digits == {"0", "1", "2", "3", "4", "5", "6", "7", "8", "9"}

DigitValue(ch) ==
    CASE ch = "0" -> 0 [] ch = "1" -> 1 [] ch = "2" -> 2 [] ch = "3" -> 3
      [] ch = "4" -> 4 [] ch = "5" -> 5 [] ch = "6" -> 6 [] ch = "7" -> 7
      [] ch = "8" -> 8 [] ch = "9" -> 9

\* enum class States, by name
States == {"ds", "es", "ts", "dd", "td"}

\* the lookup table of parseBinaryFile: the lines that are markers
lut ==
    [line \in { <<"d", "s">>, <<"e", "s">>, <<"t", "s">>, <<"d", "d">>, <<"t", "d">> } |->
        CASE line = <<"d", "s">> -> "ds" [] line = <<"e", "s">> -> "es"
          [] line = <<"t", "s">> -> "ts" [] line = <<"d", "d">> -> "dd"
          [] line = <<"t", "d">> -> "td"]

\* Loader::binaryFileGenerator skips the empty lines and the lines that
\* begin with ';'
skipped(line) == Len(line) = 0 \/ line[1] = ";"

\* a test that is content with one digit
isNumericLoose(str) == \E i \in 1..Len(str) : str[i] \in Digits

\* Loader::isNumeric: digits and spaces only
isNumeric(str) == \A i \in 1..Len(str) : str[i] \in Digits \/ str[i] = " "

\* operator>> of std::istringstream into an unsigned: the spaces are
\* skipped, then the digits are read; with no digit to read the value is 0
\* and the stream fails.  The numbers of the files tried fit in 32 bits.
RECURSIVE skipSpaces(_)
skipSpaces(str) ==
    IF str # <<>> /\ Head(str) = " " THEN skipSpaces(Tail(str)) ELSE str

RECURSIVE readDigits(_, _)
readDigits(str, value) ==
    IF str # <<>> /\ Head(str) \in Digits
    THEN readDigits(Tail(str), value * 10 + DigitValue(Head(str)))
    ELSE [value |-> value, rest |-> str, fail |-> FALSE]

extractUnsigned(iss) ==
    IF iss.fail THEN [value |-> 0, rest |-> iss.rest, fail |-> TRUE]
    ELSE LET str == skipSpaces(iss.rest)
         IN  IF str = <<>> \/ Head(str) \notin Digits
             THEN [value |-> 0, rest |-> str, fail |-> TRUE]
             ELSE readDigits(str, 0)

istringstream(line) == [value |-> 0, rest |-> line, fail |-> FALSE]

\* an insertion that drops every other entry of the map
assignOnly(segm, symbol, range) == [sr \in {symbol} |-> range]

\* segm.insert_or_assign(symbol, range)
insert_or_assign(segm, symbol, range) ==
    [sr \in DOMAIN segm \cup {symbol} |-> IF sr = symbol THEN range ELSE segm[sr]]

Parsed(dat, inst, segm) == [thrown |-> FALSE, data |-> dat, inst |-> inst, segm |-> segm]
ParseError(dat, inst, segm) == [thrown |-> TRUE, data |-> dat, inst |-> inst, segm |-> segm]

\* Loader::parseHeading
parseHeading(symbol, line, dat, inst, segm) ==
    IF ~isNumeric(line) THEN ParseError(dat, inst, segm)
    ELSE LET first  == extractUnsigned(istringstream(line))
             second == extractUnsigned(first)
         IN  IF first.value > second.value THEN ParseError(dat, inst, segm)
             ELSE Parsed(dat, inst,
                         insert_or_assign(segm, symbol,
                                          SegmentRange(first.value, second.value)))

parseDataSize(line, dat, inst, segm) == parseHeading(DS, line, dat, inst, segm)
parseExtraSize(line, dat, inst, segm) == parseHeading(ES, line, dat, inst, segm)
parseTextSize(line, dat, inst, segm) == parseHeading(CS, line, dat, inst, segm)

\* Loader::parseBody
parseBody(line, container) ==
    IF ~isNumeric(line) THEN [thrown |-> TRUE, container |-> container]
    ELSE [thrown    |-> FALSE,
          container |-> Append(container, W(extractUnsigned(istringstream(line)).value))]

parseDataData(line, dat, inst, segm) ==
    LET r == parseBody(line, dat)
    IN  [thrown |-> r.thrown, data |-> r.container, inst |-> inst, segm |-> segm]

parseTextData(line, dat, inst, segm) ==
    LET r == parseBody(line, inst)
    IN  [thrown |-> r.thrown, data |-> dat, inst |-> r.container, segm |-> segm]

\* a selector that takes a payload before any marker for data
runUninitialized(state, line, dat, inst, segm) ==
    CASE state = "ds" -> parseDataSize(line, dat, inst, segm)
      [] state = "es" -> parseExtraSize(line, dat, inst, segm)
      [] state = "ts" -> parseTextSize(line, dat, inst, segm)
      [] state = "td" -> parseTextData(line, dat, inst, segm)
      [] OTHER        -> parseDataData(line, dat, inst, segm)

\* StateSelector::run: the default-constructed state has no name and id 0
run(state, line, dat, inst, segm) ==
    IF state = "" THEN ParseError(dat, inst, segm)
    ELSE CASE state = "ds" -> parseDataSize(line, dat, inst, segm)
           [] state = "es" -> parseExtraSize(line, dat, inst, segm)
           [] state = "ts" -> parseTextSize(line, dat, inst, segm)
           [] state = "dd" -> parseDataData(line, dat, inst, segm)
           [] state = "td" -> parseTextData(line, dat, inst, segm)

\* StateSelector::update: the state picked, by name
update(update_to) == update_to

\* the largest m_end of a map that is not empty
maxEnd(segm) ==
    CHOOSE e \in { segm[sr].m_end : sr \in DOMAIN segm } :
        \A sr \in DOMAIN segm : segm[sr].m_end <= e

\* the stack placed on the largest end instead of just above it
stackRangeOnMax(segm) == SegmentRange(maxEnd(segm), MemorySize - 1)

\* the stack placed from address 0 whatever the other segments are
stackRangeFromZero(segm) == SegmentRange(0, MemorySize - 1)

\* the range Loader::appendStackSize gives SS
stackRange(segm) == SegmentRange(maxEnd(segm) + 1, MemorySize - 1)

\* what *maximum can be read as when the map is empty and max_element
\* returns end(): the behaviour is undefined
DanglingEnds == {0, MemorySize}

\* ---- inputs ----
FileLines ==
    { <<"d", "s">>, <<"t", "s">>, <<"d", "d">>, <<"t", "d">>,
      <<"0", " ", "2">>, <<"3", " ", "4">>, <<"5", " ", "1">>, <<"7">>,
      <<"x", "y">>, <<"1", "a">>, <<";", "c">>, <<>> }

\* what a file begins with before the lines tried freely
FilePrefixes ==
    { <<>>,
      << <<"e", "s">>, <<"6", " ", "6">> >>,
      << <<"d", "s">>, <<"8", " ", "9">>, <<"t", "s">>, <<"1", "0", " ", "1", "2">>,
         <<"d", "d">>, <<"1", "0", "4">> >> }

\* scenario S6
S6File ==
    << <<"d", "s">>, <<"3", "1", " ", "4", "7">>, <<"e", "s">>, <<"4", "8", " ", "4", "8">>,
       <<"t", "s">>, <<"0", " ", "2", "4">>, <<"d", "d">>, <<"1", "0", "4">>,
       <<"t", "d">>, <<"2", "5", "5">> >>

\* a number written in decimal, and the line "a b"
DigitChar(d) ==
    CASE d = 0 -> "0" [] d = 1 -> "1" [] d = 2 -> "2" [] d = 3 -> "3" [] d = 4 -> "4"
      [] d = 5 -> "5" [] d = 6 -> "6" [] d = 7 -> "7" [] d = 8 -> "8" [] d = 9 -> "9"

RECURSIVE Decimal(_)
Decimal(n) == IF n < 10 THEN <<DigitChar(n)>> ELSE Append(Decimal(n \div 10), DigitChar(n % 10))

RangeLine(a, b) == Decimal(a) \o <<" ">> \o Decimal(b)

\* files that give a range to each of ds, es and ts: ranges apart from each
\* other and ranges that overlap, ending below the last slot of the memory,
\* on the slot before it, on it and past it
FileRanges ==
    { SegmentRange(0, 2), SegmentRange(3, 4), SegmentRange(2, 3),
      SegmentRange(5, MemorySize - 2), SegmentRange(5, MemorySize - 1),
      SegmentRange(6, MemorySize) }

FullFile(ds, es, ts) ==
    << <<"d", "s">>, RangeLine(ds.m_start, ds.m_end),
       <<"e", "s">>, RangeLine(es.m_start, es.m_end),
       <<"t", "s">>, RangeLine(ts.m_start, ts.m_end) >>

FullFiles == { FullFile(ds, es, ts) : ds \in FileRanges, es \in FileRanges, ts \in FileRanges }

Files ==
    { p \o q : p \in FilePrefixes, q \in SeqsUpTo(FileLines, MaxFileLen) }
    \cup {S6File} \cup FullFiles

\* ---- actions ----
\* one turn of the loop of Loader::parseBinaryFile
ParseLine ==
    /\ pc = "parsing"
    /\ m_file_stream # <<>>
    /\ m_file_stream' = Tail(m_file_stream)
    /\ LET line == Head(m_file_stream)
       IN  IF skipped(line)
           THEN UNCHANGED <<m_state, data, instructions, segment_config, pc>>
           ELSE IF line \in DOMAIN lut
           THEN /\ m_state' = update(lut[line])
                /\ UNCHANGED <<data, instructions, segment_config, pc>>
           ELSE LET r == run(m_state, line, data, instructions, segment_config)
                IN  /\ data' = r.data
                    /\ instructions' = r.inst
                    /\ segment_config' = r.segm
                    /\ pc' = IF r.thrown THEN "rejected" ELSE pc
                    /\ UNCHANGED m_state
    /\ UNCHANGED <<file, returned, p_tracer, m_memory, m_gp, m_psr, m_segment, m_log_file, log_open,
                   m_instruction_count, nfetch, last>>

\* Loader::appendStackSize, at the end of the file
AppendStackSize ==
    /\ pc = "parsing"
    /\ m_file_stream = <<>>
    /\ IF DOMAIN segment_config # {}
       THEN /\ segment_config' = insert_or_assign(segment_config, SS, stackRange(segment_config))
            /\ pc' = "start"
       ELSE \/ /\ pc' = "rejected"
               /\ UNCHANGED segment_config
            \/ /\ \E e \in DanglingEnds :
                      segment_config' = insert_or_assign(segment_config, SS,
                                                         SegmentRange(e + 1, MemorySize - 1))
               /\ pc' = "start"
    /\ UNCHANGED <<file, m_file_stream, m_state, returned, p_tracer, instructions, data, m_memory, m_gp,
                   m_psr, m_segment, m_log_file, log_open, m_instruction_count, nfetch, last>>

\* wain: the Loader reads the file, then the Core is built, loaded and run
InitLoader ==
    /\ file \in Files
    /\ m_file_stream = file
    /\ m_state = ""
    /\ segment_config = EmptyMap
    /\ p_tracer = FALSE
    /\ instructions = <<>>
    /\ data = <<>>
    /\ m_memory = [a \in Addresses |-> Zero]
    /\ m_gp = [r \in GPRegs |-> Zero]
    /\ m_psr = Zero
    /\ m_segment = EmptyMap
    /\ m_log_file = <<>>
    /\ log_open = FALSE
    /\ m_instruction_count = 0
    /\ pc = "parsing"
    /\ nfetch = 0
    /\ last = NoLast
    /\ returned = NoCall

NextLoader ==
    ParseLine \/ AppendStackSize \/ Construct \/ DataLoader \/ InstructionLoader \/ RunStep

SpecLoader == InitLoader /\ [][NextLoader]_vars

\* ------------------------------------------------------------------------
\* The memory by itself (prototype::memory::Memory)
\* ------------------------------------------------------------------------
\* the addresses handed to write and read: the first slots, the last one,
\* the first two past the end and two far ones
AccessAddresses ==
    {Zero, W(1), W(MemorySize - 1), W(MemorySize), W(MemorySize + 1), <<1, 0>>, AllOnes}

\* the words handed to write
AccessWords == {Zero, W(1), W(65), AllOnes}

\* a call of Memory::write
MemoryWrite ==
    /\ pc = "memory"
    /\ \E address \in AccessAddresses, word \in AccessWords :
           LET r == memWrite(m_memory, word, address)
           IN  /\ m_memory' = r.mem
               /\ returned' = [op |-> "write", address |-> address, data |-> word,
                               failed |-> ~r.ok, value |-> Zero]
    /\ UNCHANGED <<segment_config, p_tracer, instructions, data, m_gp, m_psr, m_segment,
                   m_log_file, log_open, m_instruction_count, pc, nfetch, last,
                   file, m_file_stream, m_state>>

\* a call of Memory::read
MemoryRead ==
    /\ pc = "memory"
    /\ \E address \in AccessAddresses :
           LET r == memRead(m_memory, address)
           IN  returned' = [op |-> "read", address |-> address, data |-> Zero,
                            failed |-> ~r.ok, value |-> r.val]
    /\ UNCHANGED <<segment_config, p_tracer, instructions, data, m_memory, m_gp, m_psr,
                   m_segment, m_log_file, log_open, m_instruction_count, pc, nfetch, last,
                   file, m_file_stream, m_state>>

\* a Memory of MemorySize words, all zero, that no machine is built around
InitMemory ==
    /\ segment_config = EmptyMap
    /\ p_tracer = FALSE
    /\ instructions = <<>>
    /\ data = <<>>
    /\ m_memory = [a \in Addresses |-> Zero]
    /\ m_gp = [r \in GPRegs |-> Zero]
    /\ m_psr = Zero
    /\ m_segment = EmptyMap
    /\ m_log_file = <<>>
    /\ log_open = FALSE
    /\ m_instruction_count = 0
    /\ pc = "memory"
    /\ nfetch = 0
    /\ last = NoLast
    /\ file = <<>>
    /\ m_file_stream = <<>>
    /\ m_state = ""
    /\ returned = NoCall

NextMemory == MemoryWrite \/ MemoryRead

SpecMemory == InitMemory /\ [][NextMemory]_vars

\* ------------------------------------------------------------------------
\* testBitAll by itself (prototype::freefunc)
\* ------------------------------------------------------------------------
\* the widths of the unsigned types a word of two halves can hold
BitWidths == {8, 16, 32}

\* the value with every bit of the width set
AllOnesOf(bits) == Trunc(AllOnes, bits)

\* the operands: no bit, one bit, a few low bits, every bit but the top
\* one, the top bit alone, every bit but the lowest, every bit
BitOperands(bits) ==
    { Zero, One, W(5), W(7), W(127),
      WSub(WShl(One, bits - 1), One), Trunc(WShl(One, bits - 1), bits),
      WSub(AllOnesOf(bits), One), AllOnesOf(bits) }

\* the numbers of bits asked for, past the width included
LastNbits(bits) == 0..(bits + 1)

\* a call of testBitAll(n)
TestBitAll ==
    /\ pc = "bits"
    /\ \E bits \in BitWidths :
         \E n \in BitOperands(bits) :
           returned' = [op |-> "testBitAll", bits |-> bits, n |-> n, last_nbit |-> bits - 1,
                        result |-> testBitAll(bits, n)]
    /\ UNCHANGED <<segment_config, p_tracer, instructions, data, m_memory, m_gp, m_psr,
                   m_segment, m_log_file, log_open, m_instruction_count, pc, nfetch, last,
                   file, m_file_stream, m_state>>

\* a call of testBitAll(n, last_nbit)
TestBitAllLastNbit ==
    /\ pc = "bits"
    /\ \E bits \in BitWidths :
         \E n \in BitOperands(bits), last_nbit \in LastNbits(bits) :
           returned' = [op |-> "testBitAllLastNbit", bits |-> bits, n |-> n,
                        last_nbit |-> last_nbit,
                        result |-> testBitAllLastNbit(bits, n, last_nbit)]
    /\ UNCHANGED <<segment_config, p_tracer, instructions, data, m_memory, m_gp, m_psr,
                   m_segment, m_log_file, log_open, m_instruction_count, pc, nfetch, last,
                   file, m_file_stream, m_state>>

\* the single-bit operations
BitOps == {"testBit", "setBit", "resetBit", "flipBit"}

\* the positions asked for, past the width included
Positions(bits) == 0..(bits + 1)

\* what a call of one of the single-bit operations on n returns, and the
\* value n holds after it (testBit takes n by value)
bitCall(op, bits, n, position) ==
    CASE op = "testBit"  -> [ok |-> testBit(bits, n, position).ok, n |-> n]
      [] op = "setBit"   -> setBit(bits, n, position)
      [] op = "resetBit" -> resetBit(bits, n, position)
      [] op = "flipBit"  -> flipBit(bits, n, position)

InitBits ==
    /\ segment_config = EmptyMap
    /\ p_tracer = FALSE
    /\ instructions = <<>>
    /\ data = <<>>
    /\ m_memory = [a \in Addresses |-> Zero]
    /\ m_gp = [r \in GPRegs |-> Zero]
    /\ m_psr = Zero
    /\ m_segment = EmptyMap
    /\ m_log_file = <<>>
    /\ log_open = FALSE
    /\ m_instruction_count = 0
    /\ pc = "bits"
    /\ nfetch = 0
    /\ last = NoLast
    /\ file = <<>>
    /\ m_file_stream = <<>>
    /\ m_state = ""
    /\ returned = NoCall

NextBits == TestBitAll \/ TestBitAllLastNbit

SpecBits == InitBits /\ [][NextBits]_vars

\* ------------------------------------------------------------------------
\* testBit, setBit, resetBit and flipBit by themselves (prototype::freefunc)
\* ------------------------------------------------------------------------
\* a variable n of one of the widths, no call made on it yet
Uncalled(bits, n) ==
    [op |-> "none", bits |-> bits, n |-> n, position |-> 0, ok |-> TRUE, after |-> n,
     again |-> FALSE]

\* a call of testBit, setBit, resetBit or flipBit on the variable
BitOp ==
    /\ pc = "bitops"
    /\ returned.op = "none"
    /\ \E op \in BitOps, position \in Positions(returned.bits) :
         \E r \in {bitCall(op, returned.bits, returned.after, position)} :
           returned' = [op |-> op, bits |-> returned.bits, n |-> returned.after,
                        position |-> position, ok |-> r.ok, after |-> r.n, again |-> FALSE]
    /\ UNCHANGED <<segment_config, p_tracer, instructions, data, m_memory, m_gp, m_psr,
                   m_segment, m_log_file, log_open, m_instruction_count, pc, nfetch, last,
                   file, m_file_stream, m_state>>

\* a second call on the variable the call before left its result in
BitOpAgain ==
    /\ pc = "bitops"
    /\ returned.op \in BitOps
    /\ ~returned.again
    /\ \E op \in BitOps, position \in Positions(returned.bits) :
         \E r \in {bitCall(op, returned.bits, returned.after, position)} :
           returned' = [op |-> op, bits |-> returned.bits, n |-> returned.after,
                        position |-> position, ok |-> r.ok, after |-> r.n, again |-> TRUE]
    /\ UNCHANGED <<segment_config, p_tracer, instructions, data, m_memory, m_gp, m_psr,
                   m_segment, m_log_file, log_open, m_instruction_count, pc, nfetch, last,
                   file, m_file_stream, m_state>>

InitBitOps ==
    /\ segment_config = EmptyMap
    /\ p_tracer = FALSE
    /\ instructions = <<>>
    /\ data = <<>>
    /\ m_memory = [a \in Addresses |-> Zero]
    /\ m_gp = [r \in GPRegs |-> Zero]
    /\ m_psr = Zero
    /\ m_segment = EmptyMap
    /\ m_log_file = <<>>
    /\ log_open = FALSE
    /\ m_instruction_count = 0
    /\ pc = "bitops"
    /\ nfetch = 0
    /\ last = NoLast
    /\ file = <<>>
    /\ m_file_stream = <<>>
    /\ m_state = ""
    /\ \E bits \in BitWidths : \E n \in BitOperands(bits) : returned = Uncalled(bits, n)

NextBitOps == BitOp \/ BitOpAgain

SpecBitOps == InitBitOps /\ [][NextBitOps]_vars

\* ------------------------------------------------------------------------
\* Properties
\* ------------------------------------------------------------------------
\* the address lies in [m_start, m_end] of the range (ends are below 2^16)
InsideRange(address, rng) ==
    address[1] = 0 /\ rng.m_start <= address[2] /\ address[2] <= rng.m_end

\* the last iteration of run() got a word from memory
Fetched == last.outcome # "none" /\ ~(last.outcome = "fatal" /\ last.stage = "fetch")

\* the last iteration of run() ran an instruction to its end
Retired == last.outcome \in {"jump", "exec"}

\* C1: run() halts normally exactly when the word fetched is the all-ones
\* word; any other word fetched is decoded and executed, or ends the run
\* fatally, and is never taken for the terminator.
C1_HaltsExactlyOnAllOnes ==
    Fetched => ((last.outcome = "halt") <=> (last.binary = AllOnes))

\* C2: a word is decoded and executed only if it was read at an address of
\* CS; a fetch with PC outside CS is fatal, leaves PC as it was, and nothing
\* runs after it.
C2_FetchOnlyInsideCS ==
    [][ /\ pc # "fatal"
        /\ pc = "running" =>
              IF InsideRange(m_gp[PC], m_segment[CS])
              THEN /\ last'.addr = m_gp[PC]
                   /\ last'.binary = m_memory[m_gp[PC][2]]
                   /\ ~(last'.outcome = "fatal" /\ last'.stage = "fetch")
              ELSE /\ pc' = "fatal"
                   /\ last'.outcome = "fatal" /\ last'.stage = "fetch"
                   /\ m_gp' = m_gp
                   /\ m_memory' = m_memory
                   /\ m_psr' = m_psr ]_vars

\* a jump was taken to address 7, outside CS, and the next fetch was fatal
C2_Witness ==
    /\ pc = "fatal" /\ last.outcome = "fatal" /\ last.stage = "fetch"
    /\ last.addr = W(7) /\ nfetch >= 2
    /\ ~InsideRange(last.addr, m_segment[CS])

\* C3 as stated: after any retired non-jump instruction, whatever its Rd, Rm
\* and Rn, PC is the address the instruction was fetched from plus one.
C3_PCAdvancesByOne ==
    (last.outcome = "exec" /\ last.instruction.m_type # Jt) =>
        m_gp[PC] = WAdd(last.addr, One)

\* C3, amended: after any retired non-jump instruction whose Rd is not PC,
\* PC is the address the instruction was fetched from plus one.
C3_PCAdvancesByOneUnlessRdIsPC ==
    (last.outcome = "exec" /\ last.instruction.m_type # Jt
        /\ last.instruction.m_Rd # PC) =>
        m_gp[PC] = WAdd(last.addr, One)

\* a load into R1 retired, with Rm naming another register
C3_Witness ==
    /\ last.outcome = "exec" /\ last.instruction.m_code = LDR
    /\ last.instruction.m_Rd = R1 /\ last.instruction.m_Rd # PC
    /\ m_gp[PC] = WAdd(last.addr, One)


\* the addresses of a range
AddressesOf(rng) == rng.m_start .. rng.m_end

\* C4: whenever the constructor succeeds, the ranges stored for CS, DS, SS
\* and ES are pairwise disjoint, each has start <= end and each ends below
\* the size of the memory.
C4_SegmentsDisjointAndBounded ==
    pc = "constructed" =>
        /\ segment_registers \subseteq DOMAIN m_segment
        /\ \A s \in segment_registers :
              /\ m_segment[s].m_start <= m_segment[s].m_end
              /\ m_segment[s].m_end < MemorySize
        /\ \A s, t \in segment_registers :
              s # t => AddressesOf(m_segment[s]) \cap AddressesOf(m_segment[t]) = {}

\* the constructor accepted four ranges that touch one another, given in an
\* order that is not the order of their addresses
C4_Witness ==
    /\ pc = "constructed"
    /\ m_segment[ES] = SegmentRange(0, 0)
    /\ m_segment[SS] = SegmentRange(1, 1)
    /\ m_segment[DS] = SegmentRange(2, 2)
    /\ m_segment[CS] = SegmentRange(3, 4)

\* C5: right after a successful construction SP is SS.end + 1, PC is
\* CS.start, every other general-purpose register is 0 and the four flags
\* N, Z, C, V are false.
C5_RegistersAfterInit ==
    pc = "constructed" =>
        /\ m_gp[SP] = <<0, m_segment[SS].m_end + 1>>
        /\ m_gp[PC] = <<0, m_segment[CS].m_start>>
        /\ \A r \in GPRegs \ {SP, PC} : m_gp[r] = Zero
        /\ \A f \in Flags : ~getProgramStatus(m_psr, f)

\* constructed with the stack at [3, 4] and the code at [2, 2]
C5_Witness ==
    /\ pc = "constructed"
    /\ m_segment[SS] = SegmentRange(3, 4) /\ m_segment[CS] = SegmentRange(2, 2)
    /\ m_gp[SP] = <<0, 5>> /\ m_gp[PC] = <<0, 2>>

\* what is wrong with a segment map
LacksSegment(config) == \E s \in segment_registers : s \notin DOMAIN config

BadRange(config) ==
    \E s \in DOMAIN config :
        config[s].m_start > config[s].m_end \/ config[s].m_end >= MemorySize

Overlapping(config) ==
    \E s, t \in DOMAIN config :
        s # t /\ AddressesOf(config[s]) \cap AddressesOf(config[t]) # {}

\* C6: the constructor fails, with the error thrown to the caller and an
\* ERROR entry in the log when there is a tracer, exactly when the map lacks
\* one of CS, DS, SS, ES, or a range has start > end or end >= the size of
\* the memory, or two ranges overlap; otherwise it succeeds.
C6_InitFailsExactlyOnBadMap ==
    pc # "start" =>
        /\ (pc = "fatal") <=>
              (LacksSegment(segment_config) \/ BadRange(segment_config)
                  \/ Overlapping(segment_config))
        /\ pc = "fatal" =>
              /\ m_segment = EmptyMap
              /\ IF p_tracer THEN m_log_file = <<ErrorEntry>> /\ ~log_open
                             ELSE m_log_file = <<>>
        /\ pc # "fatal" =>
              pc = "constructed" /\ m_segment = segment_config /\ m_log_file = <<>>

\* a complete map whose ranges are well formed was refused, with a tracer,
\* because two of its ranges share an address
C6_Witness ==
    /\ pc = "fatal" /\ p_tracer
    /\ ~LacksSegment(segment_config) /\ ~BadRange(segment_config)
    /\ Overlapping(segment_config)
    /\ m_log_file = <<ErrorEntry>>

\* the opcodes that are neither jumps nor ADD
NonAddOpCodes ==
    {UMUL, UDIV, UMOL, AND, ORR, XOR, SHL, SHR, RTL, RTR, NOT, LDR, STR, PUSH, POP}

\* C7 as stated: after any retired non-jump instruction whose opcode is not
\* ADD (PUSH and POP included), the flags C and V are both false.
C7_NonAddClearsCV ==
    (last.outcome = "exec" /\ last.instruction.m_type # Jt
        /\ last.instruction.m_code \in NonAddOpCodes) =>
        ~getProgramStatus(m_psr, C) /\ ~getProgramStatus(m_psr, V)

\* C7, amended: after any retired non-jump instruction whose opcode is
\* neither ADD nor PUSH nor POP, the flags C and V are both false.
C7_NonAddNonStackClearsCV ==
    (last.outcome = "exec" /\ last.instruction.m_type # Jt
        /\ last.instruction.m_code \in NonAddOpCodes \ {PUSH, POP}) =>
        ~getProgramStatus(m_psr, C) /\ ~getProgramStatus(m_psr, V)

\* a NOT retired when C was set, and C is now clear
C7_Witness ==
    /\ last.outcome = "exec" /\ last.instruction.m_code = NOT
    /\ getProgramStatus(last.psr, C)
    /\ ~getProgramStatus(m_psr, C) /\ ~getProgramStatus(m_psr, V)

\* the condition under which a jump opcode is taken, given the PSR
JumpTaken(code, psr) ==
    CASE code = JMP -> TRUE
      [] code = JZ  -> getProgramStatus(psr, Z)
      [] code = JN  -> getProgramStatus(psr, N)
      [] code = JC  -> getProgramStatus(psr, C)
      [] code = JV  -> getProgramStatus(psr, V)
      [] code = JZN -> getProgramStatus(psr, Z) \/ getProgramStatus(psr, N)

\* C8: a J-type instruction with opcode JMP, JZ, JN, JC, JV or JZN and 12-bit
\* immediate imm sets PC to imm exactly when its condition holds (always for
\* JMP; Z, N, C, V for JZ, JN, JC, JV; Z or N for JZN) and otherwise leaves
\* PC at the fetch address plus one.
C8_JumpSemantics ==
    (Fetched /\ last.outcome # "halt" /\ last.instruction.m_type = Jt
        /\ last.instruction.m_code \in {JMP, JZ, JN, JC, JV, JZN}) =>
        /\ last.outcome = "jump"
        /\ m_gp[PC] = IF JumpTaken(last.instruction.m_code, last.psr)
                      THEN <<0, last.instruction.m_imm>>
                      ELSE WAdd(last.addr, One)
        /\ \A r \in GPRegs \ {PC} : m_gp[r] = last.gp[r]

\* a JC to address 3 was taken because C was set
C8_Witness ==
    /\ last.outcome = "jump" /\ last.instruction.m_code = JC
    /\ getProgramStatus(last.psr, C)
    /\ last.instruction.m_imm = 3 /\ last.addr # <<0, 2>>
    /\ m_gp[PC] = <<0, 3>>

\* the last iteration of run() got as far as executing the opcode
Executed(code) ==
    /\ Fetched /\ last.outcome # "halt"
    /\ last.instruction.m_type # Jt /\ last.instruction.m_code = code
    /\ last.stage # "alu_input"

\* the value an instruction reads from register r: PC has been incremented
\* by the fetch
RegAtExecute(r) == IF r = PC THEN WAdd(last.addr, One) ELSE last.gp[r]

C10_PopLoadsAndIncrements ==
    (Executed(POP) /\ last.instruction.m_type = St) =>
        /\ pc = "running" /\ last.outcome = "exec"
        /\ m_memory = last.mem
        /\ IF ~InsideRange(last.gp[SP], m_segment[SS])
           THEN \A r \in GPRegs \ {PC} : m_gp[r] = last.gp[r]
           ELSE /\ m_gp[last.instruction.m_Rd] = last.mem[last.gp[SP][2]]
                /\ m_gp[SP] = WAdd(last.gp[SP], One)

\* C10, amended: POP Rd with SP outside SS is a no-op (no general-purpose
\* register but PC changes, memory is unchanged, the run goes on); with SP
\* in SS, SP increases by one and, when Rd is not SP, reg[Rd] becomes
\* memory[SP].
C10_PopLoadsUnlessRdIsSP ==
    (Executed(POP) /\ last.instruction.m_type = St) =>
        /\ pc = "running" /\ last.outcome = "exec"
        /\ m_memory = last.mem
        /\ IF ~InsideRange(last.gp[SP], m_segment[SS])
           THEN \A r \in GPRegs \ {PC} : m_gp[r] = last.gp[r]
           ELSE /\ last.instruction.m_Rd # SP =>
                      m_gp[last.instruction.m_Rd] = last.mem[last.gp[SP][2]]
                /\ m_gp[SP] = WAdd(last.gp[SP], One)
                /\ \A r \in GPRegs \ {PC, SP, last.instruction.m_Rd} : m_gp[r] = last.gp[r]

\* a POP R6 took the word 291, pushed two instructions earlier, off the stack
C10_Witness ==
    /\ Executed(POP) /\ last.instruction.m_type = St /\ last.instruction.m_Rd = 6
    /\ InsideRange(last.gp[SP], m_segment[SS])
    /\ last.mem[last.gp[SP][2]] = <<0, 291>>
    /\ m_gp[6] = <<0, 291>>
    /\ m_gp[SP] = WAdd(last.gp[SP], One)

\* the words of the program, decoded
Prog(i) == decode(instructions[i])

\* an ALU instruction or a load that writes neither SP nor PC
IsPlain(i) ==
    /\ i.m_type \in {Rt, It, Ut}
    /\ i.m_code \in {ADD, UMUL, UDIV, UMOL, AND, ORR, XOR, SHL, SHR, RTL, RTR, NOT, LDR}
    /\ i.m_Rd \notin {SP, PC}

IsStackOp(i, code) == i.m_type = St /\ i.m_code = code /\ i.m_Rd \in 0..12

\* the program began with k plain instructions, n PUSHes and n POPs, n no
\* more than the size of SS, and the run has just retired the last POP; the
\* POPs write n registers that are different from the registers pushed
PushedThenPopped(k, n) ==
    /\ pc = "running" /\ nfetch = k + 2 * n
    /\ Len(instructions) >= k + 2 * n
    /\ m_segment[CS].m_end - m_segment[CS].m_start + 1 >= k + 2 * n
    /\ n <= m_segment[SS].m_end - m_segment[SS].m_start + 1
    /\ \A i \in 1..k : IsPlain(Prog(i))
    /\ \A i \in (k + 1)..(k + n) : IsStackOp(Prog(i), PUSH)
    /\ \A i \in (k + n + 1)..(k + 2 * n) : IsStackOp(Prog(i), POP)
    /\ \A i, j \in (k + n + 1)..(k + 2 * n) : i # j => Prog(i).m_Rd # Prog(j).m_Rd
    /\ \A i \in (k + 1)..(k + n), j \in (k + n + 1)..(k + 2 * n) :
           Prog(i).m_Rd # Prog(j).m_Rd

\* C11: from SP = SS.end + 1, n PUSHes followed by n POPs, n no more than
\* the size of SS, give the words pushed back in reverse order (the j-th POP
\* gets the word of the j-th PUSH counted from the last) and leave SP at
\* SS.end + 1.
C11_StackIsLIFO ==
    \A k \in 0..MaxSteps, n \in 1..MaxSteps :
        PushedThenPopped(k, n) =>
            /\ m_gp[SP] = <<0, m_segment[SS].m_end + 1>>
            /\ \A j \in 1..n :
                   m_gp[Prog(k + n + j).m_Rd] = m_gp[Prog(k + n + 1 - j).m_Rd]

\* R3 = 291 and R1 = 0 were pushed in that order, then popped into R5 and R6
C11_Witness ==
    /\ PushedThenPopped(1, 2)
    /\ Prog(2).m_Rd = 3 /\ Prog(3).m_Rd = 1 /\ Prog(4).m_Rd = 5 /\ Prog(5).m_Rd = 6
    /\ m_gp[3] = <<0, 291>> /\ m_gp[5] = Zero /\ m_gp[6] = <<0, 291>>
    /\ m_gp[SP] = <<0, m_segment[SS].m_end + 1>>

\* the word is an address of the memory
InMemory(address) == address[1] = 0 /\ address[2] < MemorySize

OperandA == RegAtExecute(last.instruction.m_Rm)

OperandB ==
    IF last.instruction.m_type = Rt THEN RegAtExecute(last.instruction.m_Rn)
    ELSE <<0, last.instruction.m_imm>>

\* an R-type or I-type instruction with this opcode went through the ALU and
\* retired
ALUExecuted(code) ==
    /\ last.outcome = "exec"
    /\ last.instruction.m_type \in {Rt, It} /\ last.instruction.m_code = code

\* a word as four digits in base 256, lowest first, and back
Bytes(w) == <<w[2] % 256, w[2] \div 256, w[1] % 256, w[1] \div 256>>

FromBytes(d) == <<d[3] + 256 * d[4], d[1] + 256 * d[2]>>

\* the digits of the natural number a + b: the fifth is the carry out of 2^32
SumBytes(a, b) ==
    LET s1 == a[1] + b[1]
        s2 == a[2] + b[2] + (s1 \div 256)
        s3 == a[3] + b[3] + (s2 \div 256)
        s4 == a[4] + b[4] + (s3 \div 256)
    IN  <<s1 % 256, s2 % 256, s3 % 256, s4 % 256, s4 \div 256>>

\* the four lowest digits of the natural number a * b
ProductBytes(a, b) ==
    LET c1 == a[1] * b[1]
        c2 == a[1] * b[2] + a[2] * b[1] + (c1 \div 256)
        c3 == a[1] * b[3] + a[2] * b[2] + a[3] * b[1] + (c2 \div 256)
        c4 == a[1] * b[4] + a[2] * b[3] + a[3] * b[2] + a[4] * b[1] + (c3 \div 256)
    IN  <<c1 % 256, c2 % 256, c3 % 256, c4 % 256>>

\* (A + B) mod 2^32 and (A * B) mod 2^32
SumMod(A, B) == FromBytes(SubSeq(SumBytes(Bytes(A), Bytes(B)), 1, 4))

ProductMod(A, B) == FromBytes(ProductBytes(Bytes(A), Bytes(B)))

\* C13: the result of ALU ADD is (A + B) mod 2^32 and the result of ALU UMUL
\* is (A * B) mod 2^32, for all words A and B.
C13_ModularArithmetic ==
    /\ ALUExecuted(ADD) => last.alu.m_result = SumMod(OperandA, OperandB)
    /\ ALUExecuted(UMUL) => last.alu.m_result = ProductMod(OperandA, OperandB)

\* 0xFFFFFFFF * 0xFFFFFFFF gave 1
C13_Witness ==
    /\ ALUExecuted(UMUL)
    /\ OperandA = AllOnes /\ OperandB = AllOnes
    /\ last.alu.m_result = One /\ m_gp[3] = One

\* the high half of a word read as a two's-complement number
SignedHigh(w) == IF w[1] >= Half \div 2 THEN w[1] - Half ELSE w[1]

\* the sum of the two's-complement readings of A and B, divided by 2^16 and
\* rounded down, lies in the range of the high half of a signed word
SignedSumInRange(A, B) ==
    LET h == SignedHigh(A) + SignedHigh(B) + ((A[2] + B[2]) \div Half)
    IN  -(Half \div 2) <= h /\ h < Half \div 2

\* C14: the flags returned by ALU ADD hold Z iff the result is 0, N iff the
\* top bit of the result is set, C iff A + B >= 2^32, and V iff the sum of
\* the two's-complement readings of A and B is outside the signed range.
C14_AddFlags ==
    ALUExecuted(ADD) =>
        LET R == last.alu.m_result
            F == last.alu.m_flags
        IN  /\ F \subseteq Flags
            /\ (Z \in F) <=> (R = Zero)
            /\ (N \in F) <=> (R[1] >= Half \div 2)
            /\ (C \in F) <=> (SumBytes(Bytes(OperandA), Bytes(OperandB))[5] = 1)
            /\ (V \in F) <=> ~SignedSumInRange(OperandA, OperandB)

\* 0x80000000 + 0x80000000 gave 0 with Z, C and V
C14_Witness ==
    /\ ALUExecuted(ADD)
    /\ OperandA = <<Half \div 2, 0>> /\ OperandB = <<Half \div 2, 0>>
    /\ last.alu.m_result = Zero /\ last.alu.m_flags = {Z, C, V}

\* the 8 base-256 digits of the natural number a * b, a and b of 4 digits
FullProductBytes(a, b) ==
    LET term(i, k) == IF k + 1 - i \in 1..4 THEN a[i] * b[k + 1 - i] ELSE 0
        col[k \in 1..8] ==
            term(1, k) + term(2, k) + term(3, k) + term(4, k)
                + (IF k = 1 THEN 0 ELSE col[k - 1] \div 256)
    IN  [k \in 1..8 |-> col[k] % 256]

\* the digits of x + y, one more than the digits of x and of y
AddDigits(x, y) ==
    LET n == Len(x)
        s[k \in 1..n] == x[k] + y[k] + (IF k = 1 THEN 0 ELSE s[k - 1] \div 256)
    IN  [k \in 1..(n + 1) |-> IF k = n + 1 THEN s[n] \div 256 ELSE s[k] % 256]

PadDigits(d, n) == [k \in 1..n |-> IF k <= Len(d) THEN d[k] ELSE 0]

WordLess(a, b) == a[1] < b[1] \/ (a[1] = b[1] /\ a[2] < b[2])

\* A = Q * B + R as natural numbers, with R < B: Q is floor(A / B) and R is
\* A mod B
Divides(A, B, Q, R) ==
    /\ WordLess(R, B)
    /\ AddDigits(FullProductBytes(Bytes(Q), Bytes(B)), PadDigits(Bytes(R), 8))
           = PadDigits(Bytes(A), 9)

\* the flags N and Z of a result
FlagsNZ(R) ==
    (IF R[1] >= Half \div 2 THEN {N} ELSE {}) \cup (IF R = Zero THEN {Z} ELSE {})

\* C15: ALU UDIV and UMOL with B = 0 return the result 0 and no flag at
\* all; with B # 0 they return floor(A / B) and A mod B, with N and Z taken
\* from the result.
C15_Division ==
    LET R == last.alu.m_result
        F == last.alu.m_flags
    IN  /\ ALUExecuted(UDIV) =>
              IF OperandB = Zero THEN R = Zero /\ F = {}
              ELSE /\ \E rem \in {WMod(OperandA, OperandB)} :
                          Divides(OperandA, OperandB, R, rem)
                   /\ F = FlagsNZ(R)
        /\ ALUExecuted(UMOL) =>
              IF OperandB = Zero THEN R = Zero /\ F = {}
              ELSE /\ \E quot \in {WDiv(OperandA, OperandB)} :
                          Divides(OperandA, OperandB, quot, R)
                   /\ F = FlagsNZ(R)

\* 0xFFFFFFFF / 0 gave 0 and no flag
C15_Witness ==
    /\ ALUExecuted(UDIV)
    /\ OperandA = AllOnes /\ OperandB = Zero
    /\ last.alu.m_result = Zero /\ last.alu.m_flags = {}

\* the last iteration fetched an R-type or I-type UDIV or UMOL whose
\* divisor operand is 0
DividedByZero ==
    /\ Fetched /\ last.outcome # "halt"
    /\ last.instruction.m_type \in {Rt, It}
    /\ last.instruction.m_code \in {UDIV, UMOL}
    /\ OperandB = Zero

\* instruction k of the program is a UDIV or UMOL by the immediate 0 or by a
\* register that still holds its initial 0, the k - 1 instructions before
\* it are plain, and the run has begun one more iteration after it
DividedThenNext(k) ==
    /\ nfetch = k + 1
    /\ Len(instructions) >= k + 1
    /\ m_segment[CS].m_end - m_segment[CS].m_start + 1 >= k + 1
    /\ \A i \in 1..(k - 1) : IsPlain(Prog(i))
    /\ Prog(k).m_type \in {Rt, It} /\ Prog(k).m_code \in {UDIV, UMOL}
    /\ \/ Prog(k).m_type = It /\ Prog(k).m_imm = 0
       \/ /\ Prog(k).m_type = Rt /\ Prog(k).m_Rn \notin {SP, PC}
          /\ \A i \in 1..(k - 1) : Prog(i).m_Rd # Prog(k).m_Rn

\* the iteration after instruction k fetched instruction k + 1
NextInOrder(k) ==
    /\ Fetched
    /\ last.addr = <<0, m_segment[CS].m_start + k>>
    /\ last.binary = instructions[k + 1]

\* C16 as stated: a UDIV or UMOL whose divisor operand is 0 does not abort
\* the run: the destination register receives 0, the four PSR flags are
\* false, and the next instruction in program order is fetched next.
C16_DivisionByZeroContinues ==
    /\ DividedByZero =>
           /\ last.outcome = "exec" /\ pc = "running"
           /\ m_gp[last.instruction.m_Rd] = Zero
           /\ \A f \in Flags : ~getProgramStatus(m_psr, f)
           /\ m_gp[PC] = WAdd(last.addr, One)
    /\ \A k \in 1..MaxSteps : DividedThenNext(k) => NextInOrder(k)

\* C16 for a destination register other than PC
C16_DivisionByZeroContinuesUnlessRdIsPC ==
    /\ (DividedByZero /\ last.instruction.m_Rd # PC) =>
           /\ last.outcome = "exec" /\ pc = "running"
           /\ m_gp[last.instruction.m_Rd] = Zero
           /\ \A f \in Flags : ~getProgramStatus(m_psr, f)
           /\ m_gp[PC] = WAdd(last.addr, One)
    /\ \A k \in 1..MaxSteps :
           (DividedThenNext(k) /\ Prog(k).m_Rd # PC) => NextInOrder(k)

\* 0xFFFFFFFF / R2 with R2 = 0 left 0 in R3, and the addition after it left
\* 7 in R4
C16_Witness ==
    /\ DividedThenNext(2) /\ Prog(2).m_Rd = 3 /\ Prog(2).m_code = UDIV
    /\ NextInOrder(2)
    /\ last.gp[1] = AllOnes /\ \A f \in Flags : ~getProgramStatus(last.psr, f)
    /\ m_gp[3] = Zero /\ m_gp[4] = <<0, 7>>

\* the program ran in a straight line up to its n-th instruction, an R-type
\* RTR, which has just retired; the instruction before it is an R-type RTL
\* of a register A by a count register, and the RTR rotates the result of
\* the RTL by the same count register
RotatedThereAndBack(n) ==
    /\ nfetch = n /\ Len(instructions) >= n
    /\ m_segment[CS].m_end - m_segment[CS].m_start + 1 >= n
    /\ \A i \in 1..(n - 1) : IsPlain(Prog(i))
    /\ Prog(n - 1).m_type = Rt /\ Prog(n - 1).m_code = RTL
    /\ Prog(n).m_type = Rt /\ Prog(n).m_code = RTR
    /\ Prog(n).m_Rm = Prog(n - 1).m_Rd
    /\ Prog(n).m_Rn = Prog(n - 1).m_Rn
    /\ Prog(n - 1).m_Rd \notin {Prog(n - 1).m_Rm, Prog(n - 1).m_Rn}
    /\ {Prog(n - 1).m_Rm, Prog(n - 1).m_Rn} \cap {SP, PC} = {}
    /\ ALUExecuted(RTR) /\ last.binary = instructions[n]

\* C17: for every word A and every k with 0 <= k < 32, rotating A left by k
\* and the result right by k gives A.
C17_RotateRoundTrip ==
    \A n \in 2..MaxSteps :
        (RotatedThereAndBack(n) /\ WordLess(OperandB, <<0, WordBits>>)) =>
            last.alu.m_result = last.gp[Prog(n - 1).m_Rm]

\* 0x12345678 rotated left by 4 is 0x23456781, and rotated back it is
\* 0x12345678 in R5
C17_Witness ==
    /\ RotatedThereAndBack(6)
    /\ last.gp[1] = <<4660, 22136>> /\ OperandB = <<0, 4>>
    /\ OperandA = <<9029, 26497>>
    /\ m_gp[5] = <<4660, 22136>>

\* C18: decode gives a value for every 32-bit word, with op_type the bits
\* [0,4), op_code the bits [4,12), Rd the bits [12,16), Rm the bits [16,20),
\* Rn the bits [20,24) and imm the bits [20,32): putting the fields back at
\* their places reproduces the word, and Rn is imm mod 16.
C18_DecodeFields ==
    Fetched =>
        LET w == last.binary
            i == last.instruction
        IN  /\ i = decode(w)
            /\ i.m_type \in 0..15 /\ i.m_code \in 0..255
            /\ i.m_Rd \in 0..15 /\ i.m_Rm \in 0..15 /\ i.m_Rn \in 0..15
            /\ i.m_imm \in 0..4095
            /\ w[2] = i.m_type + 16 * i.m_code + 4096 * i.m_Rd
            /\ w[1] = i.m_Rm + 16 * i.m_imm
            /\ i.m_Rn = i.m_imm % 16

\* 0xABCD1234 decoded: type 4, code 0x23, Rd 1, Rm 0xD, Rn 0xC, imm 0xABC
C18_Witness ==
    /\ Fetched /\ last.binary = <<43981, 4660>>
    /\ last.instruction = [m_type |-> 4, m_code |-> 35, m_Rd |-> 1,
                           m_Rm |-> 13, m_Rn |-> 12, m_imm |-> 2748]

\* what one iteration of the loop of run() does from the current state
\* when no tracer is attached
untraced(ub, line) ==
    LET f   == fetch(m_gp, m_memory, m_segment)
        err == traceLog(FALSE, m_log_file, log_open)
    IN  IF ~f.ok \/ testBitAll(WordBits, f.binary).val THEN fetched(f, ub, line, err)
        ELSE jumped(f.binary, decode(f.binary), f.gp,
                    checkJump(decode(f.binary), f.gp, m_psr, m_memory, line), ub, err,
                    FALSE)

\* an iteration of run() left the Core as the same iteration without a
\* tracer leaves it: running, halted or fatal alike, with the same
\* registers, PSR and memory
StepAsUntraced ==
    \E ub \in ShiftOutcomes, line \in Lines :
        \E r \in {untraced(ub, line)} :
            /\ pc' = r.pc
            /\ m_gp' = r.gp
            /\ m_psr' = r.psr
            /\ m_memory' = r.mem

\* C19 as stated: a run with a tracer attached goes as the run without one:
\* every iteration of run() ends in the same way and leaves the same
\* general-purpose registers, PSR and memory, so both runs end in the same
\* way with the same final state.
C19_TracerHasNoEffect ==
    [][(pc = "running" /\ nfetch' = nfetch + 1) => StepAsUntraced]_vars

\* the places of the ERROR entries in the log
ErrorEntries == { i \in 1..Len(m_log_file) : m_log_file[i].kind = "ERROR" }

\* C20 as stated: with a tracer attached, when a run has ended fatally the
\* log holds exactly one ERROR entry, that entry is the last thing written,
\* and the log is closed.
C20_FatalEndIsLogged ==
    (p_tracer /\ pc = "fatal") =>
        /\ Cardinality(ErrorEntries) = 1
        /\ ErrorEntries = {Len(m_log_file)}
        /\ ~log_open

\* the last iteration fetched a J-type SYSCALL
SyscallFetched ==
    /\ Fetched /\ last.outcome # "halt"
    /\ last.instruction.m_type = Jt /\ last.instruction.m_code = SYSCALL

\* every general-purpose register but PC is as it was before the iteration
OnlyPCChanged == \A r \in GPRegs \ {PC} : m_gp[r] = last.gp[r]

\* the memory a handler leaves: welcome and consoleOut write nothing,
\* consoleIn writes the characters of the line it read from R0 on
HandlerMemory(imm, line) ==
    IF imm = 2 /\ ~WordLess(last.gp[R1], <<0, Len(line)>>)
    THEN [a \in Addresses |->
             IF \E i \in 1..Len(line) : WAdd(last.gp[R0], <<0, i - 1>>) = <<0, a>>
             THEN <<0, line[CHOOSE i \in 1..Len(line) :
                                   WAdd(last.gp[R0], <<0, i - 1>>) = <<0, a>>]>>
             ELSE last.mem[a]]
    ELSE last.mem

\* C21: a SYSCALL whose immediate is not 0, 1 or 2 is fatal and changes no
\* general-purpose register other than PC, no PSR flag and no memory slot;
\* a SYSCALL with a known immediate does what that handler does, once, with
\* no ALU pass and no register written back.
C21_SyscallDispatch ==
    SyscallFetched =>
        /\ OnlyPCChanged /\ m_gp[PC] = WAdd(last.addr, One)
        /\ m_psr = last.psr
        /\ last.alu = ALUOutputDefault
        /\ IF last.instruction.m_imm \notin SyscallNumbers
           THEN pc = "fatal" /\ last.outcome = "fatal" /\ m_memory = last.mem
           ELSE \E line \in Lines : m_memory = HandlerMemory(last.instruction.m_imm, line)

\* SYSCALL 5 met with N set and R1 = 0xFFFFFFFF: the run ended there
C21_Witness ==
    /\ SyscallFetched /\ last.instruction.m_imm = 5
    /\ pc = "fatal" /\ getProgramStatus(m_psr, N)
    /\ m_gp[R1] = AllOnes /\ m_memory = last.mem

\* scenario S1 is loaded and the loop of run() has gone round twice
S1Ran ==
    /\ segment_config = S1Segments /\ instructions = S1Program
    /\ MemorySize = 50
    /\ nfetch >= 2

\* C22 as stated: scenario S1 halts normally with R1 = 1 and PC just past
\* the terminator.
C22_ScenarioS1 ==
    S1Ran => pc = "halted" /\ m_gp[R1] = One /\ m_gp[PC] = <<0, 2>>

\* C22 with the value the word 0x00111060 computes: it is the R-type
\* XOR R1, R1, R1, so scenario S1 halts normally with R1 = 0 and Z set,
\* and PC just past the terminator.
C22_ScenarioS1ClearsR1 ==
    S1Ran =>
        /\ pc = "halted" /\ nfetch = 2
        /\ m_gp[R1] = Zero /\ getProgramStatus(m_psr, Z)
        /\ m_gp[PC] = <<0, 2>>

\* scenario S1 has halted with a tracer attached
C22_Witness ==
    /\ S1Ran /\ p_tracer /\ pc = "halted"
    /\ last.binary = Terminator /\ last.addr = One
    /\ m_memory[0] = <<17, 4192>> /\ decode(m_memory[0]).m_code = XOR
    /\ m_gp[R1] = Zero /\ m_gp[PC] = <<0, 2>>

\* -5 as a word and as a 12-bit immediate
MinusFive == <<HalfMax, HalfMax - 4>>
MinusFiveImm == Pow2(12) - 5

\* the program ran in a straight line from address 0 to its n-th
\* instruction, a JZ, which has just been met; the instruction before it is
\* an I-type ADD into R0 of a register holding a and the immediate b
AddThenJZ(n, a, b) ==
    /\ nfetch = n /\ Len(instructions) >= n
    /\ m_segment[CS].m_start = 0 /\ m_segment[CS].m_end >= Len(instructions) - 1
    /\ \A i \in 1..(n - 1) : IsPlain(Prog(i))
    /\ Prog(n - 1).m_type = It /\ Prog(n - 1).m_code = ADD
    /\ Prog(n - 1).m_Rd = R0 /\ Prog(n - 1).m_Rm # R0
    /\ Prog(n - 1).m_imm = b /\ last.gp[Prog(n - 1).m_Rm] = a
    /\ Prog(n).m_type = Jt /\ Prog(n).m_code = JZ
    /\ Fetched /\ last.binary = instructions[n]

\* the ADD left 0 in R0 and Z set, and the JZ set PC to its target
ZeroThenJump(n) ==
    /\ last.gp[R0] = Zero /\ getProgramStatus(last.psr, Z)
    /\ last.outcome = "jump" /\ m_gp[PC] = <<0, Prog(n).m_imm>>

\* CS starts at address 0 and holds the whole program
FitsAtZero ==
    /\ segment_config[CS].m_start = 0
    /\ segment_config[CS].m_end >= Len(instructions) - 1

\* the instruction after the JZ writes R2 and the run has ended
FellThroughOrNot(n) ==
    /\ Len(instructions) > n /\ Prog(n).m_type = Jt /\ Prog(n).m_code = JZ
    /\ Prog(n + 1).m_Rd = 2 /\ pc \in {"halted", "fatal"}

\* C23 as stated, with 5 in the register and -5 in the immediate field of
\* the I-type ADD: Z is set after the ADD, the JZ that follows sets PC to
\* its target, and R2 is still 0 when the run ends.
C23_ScenarioS3 ==
    /\ \A n \in 2..MaxSteps :
           AddThenJZ(n, <<0, 5>>, MinusFiveImm) => ZeroThenJump(n)
    /\ (instructions = S3Immediate /\ FitsAtZero /\ FellThroughOrNot(3)) =>
           pc = "halted" /\ m_gp[2] = Zero

\* C23 with -5 in the register and 5 in the immediate field: Z is set
\* after the ADD, the JZ that follows sets PC to its target, and R2 is
\* still 0 when the run ends.
C23_ScenarioS3MinusFiveInRegister ==
    /\ \A n \in 2..MaxSteps :
           AddThenJZ(n, MinusFive, 5) => ZeroThenJump(n)
    /\ (instructions = S3Program /\ FitsAtZero /\ FellThroughOrNot(4)) =>
           pc = "halted" /\ m_gp[2] = Zero

\* 0xFFFFFFFB + 5 left 0 in R0, the JZ went to address 5, and the run halted
\* there with R2 = 0
C23_Witness ==
    /\ instructions = S3Program /\ FitsAtZero
    /\ pc = "halted" /\ nfetch = 5
    /\ last.addr = <<0, 5>> /\ last.binary = Terminator
    /\ m_gp[R1] = MinusFive /\ m_gp[R0] = Zero /\ m_gp[2] = Zero
    /\ getProgramStatus(m_psr, Z)

\* ---- the file as the Loader is told to read it ----
SetMax(S) == CHOOSE x \in S : \A y \in S : y <= x

MarkerLines == { <<"d", "s">>, <<"e", "s">>, <<"t", "s">>, <<"d", "d">>, <<"t", "d">> }

\* line i of the file is blank or a comment, a marker, or a payload
IsIgnored(i) == file[i] = <<>> \/ file[i][1] = ";"
IsMarker(i) == file[i] \in MarkerLines
IsPayload(i) == ~IsIgnored(i) /\ ~IsMarker(i)

\* the marker that line i stands under, <<>> when there is none before it
MarkerOver(i) ==
    LET before == { j \in 1..(i - 1) : IsMarker(j) }
    IN  IF before = {} THEN <<>> ELSE file[SetMax(before)]

\* the marker that gives the size of a segment
SizeMarker(sr) ==
    CASE sr = DS -> <<"d", "s">> [] sr = ES -> <<"e", "s">> [] sr = CS -> <<"t", "s">>

\* the payload lines that stand under the size marker of a segment
SizeLines(sr) == { i \in 1..Len(file) : IsPayload(i) /\ MarkerOver(i) = SizeMarker(sr) }

\* the Loader has read a file to its end and added the stack
LoaderDone == file # <<>> /\ pc \notin {"parsing", "rejected"}

TakesLine == pc = "parsing" /\ m_file_stream # <<>>

\* the segment whose entry the current state writes, none for dd, td and ""
CurrentSegments ==
    CASE m_state = "ds" -> {DS} [] m_state = "es" -> {ES} [] m_state = "ts" -> {CS}
      [] OTHER -> {}

IsPrefix(s, t) == Len(s) <= Len(t) /\ SubSeq(t, 1, Len(s)) = s

\* C25: a marker line, seen before or not, changes only the current state of
\* the Loader: the segment entries, data[] and instructions[] stay as they
\* are. A payload line only appends to data[] (in dd) or to instructions[]
\* (in td), or adds or overwrites the entry of the current section (in ds,
\* es, ts); every other entry stays as it was.
C25_MarkersKeepEntries ==
    [][ TakesLine =>
          IF Head(m_file_stream) \in MarkerLines
          THEN /\ segment_config' = segment_config
               /\ data' = data
               /\ instructions' = instructions
               /\ m_state' \in States
          ELSE /\ m_state' = m_state
               /\ IsPrefix(data, data') /\ (data' # data => m_state = "dd")
               /\ IsPrefix(instructions, instructions')
               /\ (instructions' # instructions => m_state = "td")
               /\ DOMAIN segment_config \subseteq DOMAIN segment_config'
               /\ \A sr \in DOMAIN segment_config' :
                      (sr \notin DOMAIN segment_config
                          \/ segment_config'[sr] # segment_config[sr])
                        => sr \in CurrentSegments
      ]_vars

\* ds was entered a second time after ts and dd, and its new range replaced
\* the old one while the CS entry and data[] were kept
C25_Witness ==
    /\ pc = "parsing"
    /\ Len(file) >= 8 /\ Len(m_file_stream) = Len(file) - 8
    /\ SubSeq(file, 1, 8) = << <<"d", "s">>, <<"8", " ", "9">>, <<"t", "s">>,
                               <<"1", "0", " ", "1", "2">>, <<"d", "d">>,
                               <<"1", "0", "4">>, <<"d", "s">>, <<"0", " ", "2">> >>
    /\ m_state = "ds"
    /\ segment_config = (DS :> SegmentRange(0, 2)) @@ (CS :> SegmentRange(10, 12))
    /\ data = <<W(104)>>

\* ---- a payload before any marker ----
\* the lines of the file that are neither blank nor a comment
Meaningful == { i \in 1..Len(file) : ~IsIgnored(i) }

\* the first of them
FirstMeaningful == CHOOSE i \in Meaningful : \A j \in Meaningful : i <= j

\* the file begins, blank lines and comments aside, with a line that is no marker
StartsWithPayload == Meaningful # {} /\ ~IsMarker(FirstMeaningful)

\* the number of lines the Loader has taken
Consumed == Len(file) - Len(m_file_stream)

\* C26: when the first line that is neither blank nor a comment is not one
\* of ds, es, ts, dd, td, the Loader fails on that line: nothing is ever
\* added to data[], instructions[] or the segment map, no line after it is
\* read, and no machine is built from the file.
C26_PayloadBeforeMarker ==
    StartsWithPayload =>
        /\ data = <<>> /\ instructions = <<>> /\ segment_config = EmptyMap
        /\ pc \in {"parsing", "rejected"}
        /\ Consumed <= FirstMeaningful
        /\ (Consumed = FirstMeaningful <=> pc = "rejected")

\* a comment, then a range line before any marker: the Loader has failed on it
C26_Witness ==
    /\ Len(file) >= 2
    /\ file[1] = <<";", "c">> /\ file[2] = <<"0", " ", "2">>
    /\ pc = "rejected" /\ Consumed = 2
    /\ m_state = ""

\* ---- payload lines the Loader refuses ----
\* the largest number written in a range line of the files
MaxWritten == 12

\* the range lines "a b" whose start is greater than their end
BackwardRangeLines ==
    { RangeLine(p[1], p[2]) :
          p \in { q \in (0..MaxWritten) \X (0..MaxWritten) : q[1] > q[2] } }

\* the line has a character that is neither a decimal digit nor a space
HasOtherCharacter(line) ==
    \E i \in 1..Len(line) :
        line[i] \notin {"0", "1", "2", "3", "4", "5", "6", "7", "8", "9", " "}

\* the line the Loader is about to take is a payload that must be refused
RefusedPayload ==
    LET line == Head(m_file_stream)
    IN  /\ line # <<>> /\ line[1] # ";" /\ line \notin MarkerLines
        /\ \/ HasOtherCharacter(line)
           \/ m_state \in {"ds", "es", "ts"} /\ line \in BackwardRangeLines

\* C27: in any section state, a payload line with a character other than a
\* decimal digit or a space (an unknown two-letter word included), or a
\* size line whose start is greater than its end, makes the Loader fail,
\* and the step adds nothing to data[], instructions[] or the segment map.
C27_BadPayloadIsFatal ==
    [][ (TakesLine /\ m_state \in States /\ RefusedPayload) =>
          /\ pc' = "rejected"
          /\ data' = data
          /\ instructions' = instructions
          /\ segment_config' = segment_config
      ]_vars

\* after es and the range 6 6, the line 5 1 was refused and the entry kept
C27_Witness ==
    /\ pc = "rejected" /\ m_state = "es" /\ Consumed = 3
    /\ file[3] = <<"5", " ", "1">>
    /\ segment_config = (ES :> SegmentRange(6, 6))
    /\ data = <<>> /\ instructions = <<>>

\* ---- Memory::write and Memory::read ----
\* the step is a call of write or of read with this address
Called(op, address) == returned'.op = op /\ returned'.address = address

OutOfRange(address) == ~WordLess(address, W(MemorySize))

\* C28: write and read fail exactly when the address is MEM_SIZE or more; a
\* failed write changes no slot; a write that succeeds changes slot a only,
\* to the word written; and a read of a that follows it returns that word.
C28_MemoryAccess ==
    [][ \A address \in AccessAddresses :
          /\ (Called("write", address) \/ Called("read", address))
               => (returned'.failed <=> OutOfRange(address))
          /\ (Called("write", address) /\ returned'.failed) => m_memory' = m_memory
          /\ (Called("write", address) /\ ~returned'.failed)
               => /\ m_memory'[WInt(address)] = returned'.data
                  /\ \A b \in Addresses \ {WInt(address)} : m_memory'[b] = m_memory[b]
          /\ ( /\ returned.op = "write" /\ ~returned.failed /\ returned.address = address
               /\ Called("read", address) )
               => (~returned'.failed /\ returned'.value = returned.data)
      ]_vars

\* the word 65 was written in the last slot and read back, over an earlier
\* write of all ones in slot 0
C28_Witness ==
    /\ returned = [op |-> "read", address |-> W(MemorySize - 1), data |-> Zero,
                   failed |-> FALSE, value |-> W(65)]
    /\ m_memory[MemorySize - 1] = W(65)
    /\ m_memory[0] = AllOnes

\* ---- testBitAll ----
\* bit i of a word
BitOf(n, i) ==
    IF i < 16 THEN (n[2] \div Pow2(i)) % 2 = 1 ELSE (n[1] \div Pow2(i - 16)) % 2 = 1

\* C29: for a W-bit n (W = 8, 16, 32), testBitAll(n) is true iff n is
\* 2^W - 1; testBitAll(n, k) with k < W is true iff the lowest k + 1 bits
\* of n are all 1, and fails when k >= W.
C29_TestBitAll ==
    /\ returned.op = "testBitAll" =>
           /\ returned.result.ok
           /\ returned.result.val <=> (returned.n = AllOnesOf(returned.bits))
    /\ returned.op = "testBitAllLastNbit" =>
           IF returned.last_nbit < returned.bits
           THEN /\ returned.result.ok
                /\ returned.result.val
                       <=> \A i \in 0..returned.last_nbit : BitOf(returned.n, i)
           ELSE ~returned.result.ok

\* ---- the PSR after a retired instruction ----
\* the flags that are set in the PSR
PsrFlags == { f \in Flags : getProgramStatus(m_psr, f) }

\* the top bit of a word
TopBit(w) == w[1] >= Pow2(15)

\* the PSR is the flag set of the ALU, and N and Z are those of its result
PsrOfALU ==
    /\ PsrFlags = last.alu.m_flags
    /\ ~DividedByZero =>
           /\ (N \in PsrFlags <=> TopBit(last.alu.m_result))
           /\ (Z \in PsrFlags <=> last.alu.m_result = Zero)

\* the result of the ALU is the address that LDR read or STR wrote
ResultIsAddress ==
    /\ last.instruction.m_code = STR =>
           m_memory = [last.mem EXCEPT ![WInt(last.alu.m_result)] = m_gp[last.instruction.m_Rd]]
    /\ last.instruction.m_code = LDR =>
           m_gp[last.instruction.m_Rd] = last.mem[WInt(last.alu.m_result)]

\* C30 as stated: after every retired non-jump instruction the PSR is
\* exactly the flag set the ALU returned; division by zero aside, N is the
\* top bit of the result of the ALU and Z is set iff the result is 0; the
\* result is the address used by LDR and STR and the new SP of PUSH and POP.
C30_PSRIsALUFlags ==
    last.outcome = "exec" =>
        /\ PsrOfALU
        /\ ResultIsAddress
        /\ last.instruction.m_code \in {PUSH, POP} => m_gp[SP] = last.alu.m_result

\* the POP found SP outside the stack segment
PoppedOutsideStack ==
    /\ last.instruction.m_code = POP
    /\ ~checkAddressInrange(last.gp[SP], m_segment[SS])

\* C30, amended: as C30, except that the result of the ALU is the new SP
\* only for PUSH and for a POP that finds SP in the stack segment; a POP
\* that finds SP outside it leaves SP as it is, and the result of the ALU,
\* which the PSR follows, is SP + 1.
C30_PSRIsALUFlagsPopInStack ==
    last.outcome = "exec" =>
        /\ PsrOfALU
        /\ ResultIsAddress
        /\ (last.instruction.m_code \in {PUSH, POP} /\ ~PoppedOutsideStack)
               => m_gp[SP] = last.alu.m_result
        /\ PoppedOutsideStack =>
               /\ m_gp[SP] = last.gp[SP]
               /\ last.alu.m_result = WAdd(last.gp[SP], One)

\* an instruction retired with N alone in the PSR where Z was set before it
C30_Witness ==
    /\ last.outcome = "exec"
    /\ getProgramStatus(last.psr, Z)
    /\ PsrFlags = {N}
    /\ last.alu.m_flags = {N}

\* ---- op_code against op_type ----
\* the pairs of op_type and op_code that go together
ConsistentPair(type, code) ==
    \/ type \in {Rt, It} /\ code \in {ADD, UMUL, UDIV, UMOL, AND, ORR, XOR, SHL, SHR, RTL, RTR}
    \/ type = Ut /\ code \in {NOT, LDR, STR}
    \/ type = St /\ code \in {PUSH, POP}
    \/ type = Jt /\ code \in {JMP, JZ, JN, JC, JV, JZN, SYSCALL}

\* the last iteration decoded a word whose op_code does not go with its op_type
DecodedMismatch ==
    /\ Fetched /\ last.outcome # "halt"
    /\ ~ConsistentPair(last.instruction.m_type, last.instruction.m_code)

\* C31: every instruction whose op_code is not valid for its op_type ends
\* the run fatally, and changes no general-purpose register other than PC,
\* no flag and no memory.
C31_MismatchIsFatal ==
    DecodedMismatch =>
        /\ last.outcome = "fatal"
        /\ OnlyPCChanged
        /\ m_psr = last.psr
        /\ m_memory = last.mem

\* ---- jumps ----
\* the last iteration decoded a J-type instruction that is not SYSCALL
DecodedJump ==
    /\ Fetched /\ last.outcome # "halt"
    /\ last.instruction.m_type = Jt
    /\ last.instruction.m_code # SYSCALL

\* C32: a J-type instruction other than SYSCALL changes nothing but PC:
\* R0..R12, SP and LR, the four flags of the PSR and the whole memory are as
\* they were before it, so the flags of the instruction before a jump are
\* still there after it.
C32_JumpChangesOnlyPC ==
    DecodedJump =>
        /\ OnlyPCChanged
        /\ m_psr = last.psr
        /\ m_memory = last.mem

\* JV was taken to address 5 with Z, C and V set, and they are still set
C32_Witness ==
    /\ last.outcome = "jump" /\ last.instruction.m_code = JV
    /\ m_gp[PC] = W(5)
    /\ \A f \in {Z, C, V} : getProgramStatus(m_psr, f)
    /\ m_gp[LR] = Zero

\* the record Tracer::generateTrace writes for an instruction retired with
\* the state the Core is left in
RecordOf(count, binary, gp, psr, memory) ==
    [kind |-> "TRACE", count |-> count, binary |-> binary,
     registers |-> gp, psr |-> psr, memory |-> memory]

\* the trace records of the log
TraceRecords == { i \in 1..Len(m_log_file) : m_log_file[i].kind = "TRACE" }

\* an iteration of run() with a tracer attached
TracedStep == p_tracer /\ pc = "running" /\ nfetch' = nfetch + 1

\* C33 as stated: with a tracer attached, every retired instruction adds
\* exactly one trace record to the log, numbered by the counter, holding the
\* registers, PSR and memory as the instruction left them, and increments
\* the counter; the terminator word and an instruction that ends fatally
\* add no record (at most the ERROR entry) and leave the counter as it was.
C33_OneRecordPerRetired ==
    [][TracedStep =>
          IF Retired'
          THEN /\ m_log_file' = Append(m_log_file,
                                       RecordOf(m_instruction_count, last'.binary,
                                                m_gp', m_psr', m_memory'))
               /\ m_instruction_count' = m_instruction_count + 1
          ELSE /\ m_log_file' \in {m_log_file, Append(m_log_file, ErrorEntry)}
               /\ m_instruction_count' = m_instruction_count]_vars

\* the same for every iteration that does not end inside the tracer
C33_OneRecordUnlessTracerFails ==
    [][(TracedStep /\ last'.stage # "trace") =>
          IF Retired'
          THEN /\ m_log_file' = Append(m_log_file,
                                       RecordOf(m_instruction_count, last'.binary,
                                                m_gp', m_psr', m_memory'))
               /\ m_instruction_count' = m_instruction_count + 1
          ELSE /\ m_log_file' \in {m_log_file, Append(m_log_file, ErrorEntry)}
               /\ m_instruction_count' = m_instruction_count]_vars

\* with a tracer attached the counter is the number of trace records
C33_CounterCountsRecords ==
    p_tracer => m_instruction_count = Cardinality(TraceRecords)

\* the call went from n to after leaving every bit but `position` as it was
OtherBitsKept(bits, n, after, position) ==
    /\ Trunc(after, bits) = after
    /\ \A i \in 0..(bits - 1) : i # position => (BitOf(after, i) <=> BitOf(n, i))

\* a second call of the same operation at the same position
Repeated(op) ==
    /\ returned.op = op /\ returned'.op = op /\ returned'.again
    /\ returned'.position = returned.position

\* one call: it fails and leaves n unchanged when pos >= W; with pos < W it
\* succeeds, changes no bit other than pos, and leaves bit pos 1 (setBit),
\* 0 (resetBit), inverted (flipBit) or as it was (testBit)
OneCall ==
    returned.op \in BitOps =>
        IF returned.position >= returned.bits
        THEN ~returned.ok /\ returned.after = returned.n
        ELSE /\ returned.ok
             /\ OtherBitsKept(returned.bits, returned.n, returned.after, returned.position)
             /\ returned.op = "testBit" => returned.after = returned.n
             /\ returned.op = "setBit" => BitOf(returned.after, returned.position)
             /\ returned.op = "resetBit" => ~BitOf(returned.after, returned.position)
             /\ returned.op = "flipBit" =>
                    (BitOf(returned.after, returned.position)
                         <=> ~BitOf(returned.n, returned.position))

\* two calls: flipBit applied twice at one position restores n, and a
\* second setBit or resetBit at the same position changes nothing
SecondCall ==
    /\ Repeated("flipBit") => returned'.after = returned.n
    /\ Repeated("setBit") => returned'.after = returned.after
    /\ Repeated("resetBit") => returned'.after = returned.after

\* C34: for a W-bit n (W = 8, 16, 32), testBit, setBit, resetBit and flipBit
\* with pos >= W return a failure value and leave n unchanged; with pos < W,
\* setBit, resetBit and flipBit change at most bit pos (to 1, to 0,
\* inverted) and leave every other bit unchanged, so flipBit applied twice
\* restores n and setBit and resetBit are idempotent.
C34_SingleBitOps == [][OneCall' /\ SecondCall]_vars

\* resetBit cleared bit 31 of 0xFFFFFFFF and a second resetBit of bit 31
\* left 0x7FFFFFFF as it was
C34_Witness ==
    /\ returned.op = "resetBit" /\ returned.again /\ returned.bits = 32
    /\ returned.position = 31 /\ returned.ok
    /\ returned.n = <<32767, 65535>> /\ returned.after = <<32767, 65535>>

\* an iteration of run()
Step == pc = "running" /\ nfetch' = nfetch + 1

\* the instruction of the iteration writes memory: STR, PUSH, or the
\* console-input syscall (J-type SYSCALL with immediate 2)
WritesMemory(instruction) ==
    \/ instruction.m_code \in {STR, PUSH}
    \/ /\ instruction.m_type = Jt /\ instruction.m_code = SYSCALL
       /\ instruction.m_imm = 2

\* C35: during run, memory is modified only by STR, by PUSH and by the
\* console-input syscall: every other instruction and every iteration that
\* ends fatally leaves every memory slot unchanged, and no iteration
\* changes the segment map.
C35_MemoryWriters ==
    [][Step =>
          /\ m_segment' = m_segment
          /\ m_memory' # m_memory =>
                 /\ Retired'
                 /\ WritesMemory(last'.instruction)]_vars

\* the same with the iterations that end inside the tracer left out
C35_MemoryWritersUnlessTracerFails ==
    [][(Step /\ last'.stage # "trace") =>
          /\ m_segment' = m_segment
          /\ m_memory' # m_memory =>
                 /\ Retired'
                 /\ WritesMemory(last'.instruction)]_vars

\* the Core has been constructed with a valid segment map
Constructed == m_segment # EmptyMap

\* C36: in a run in which SP is written only by PUSH and POP (no other
\* instruction with Rd = 13 has completed), every state has
\* SS.start <= SP <= SS.end + 1, and the number of successful PUSHes minus
\* the number of successful POPs is SS.end + 1 - SP.
C36_StackPointer ==
    (Constructed /\ ~last.sp_written) =>
        /\ m_gp[SP][1] = 0
        /\ m_segment[SS].m_start <= m_gp[SP][2]
        /\ m_gp[SP][2] <= m_segment[SS].m_end + 1
        /\ last.pushes - last.pops = m_segment[SS].m_end + 1 - m_gp[SP][2]

\* two PUSHes and one POP have moved SP, which is one below SS.end + 1
C36_Witness ==
    /\ Constructed /\ ~last.sp_written
    /\ last.pushes = 2 /\ last.pops = 1
    /\ m_gp[SP][2] = m_segment[SS].m_end

\* the number of slots of the code segment
CSSize == m_segment[CS].m_end - m_segment[CS].m_start + 1

\* the run is over
Ended == pc \in {"halted", "fatal"}

\* run() has made as many iterations as the model follows, fewer than the
\* code segment allows
Cut == pc = "running" /\ nfetch = MaxSteps /\ MaxSteps < CSSize + 1

\* in a straight run the k-th fetch is made at CS.start + k - 1, so the run
\* has made at most |CS| + 1 fetches, the last of them past CS.end
FetchBound ==
    (Constructed /\ last.straight) =>
        /\ nfetch <= CSSize + 1
        /\ pc = "running" => m_gp[PC] = <<0, m_segment[CS].m_start + nfetch>>
        /\ pc = "running" => nfetch <= CSSize

\* how a straight run ends according to the claim: halted on the terminator
\* word, or fatal in the fetch with PC past CS.end
EndsAsStated ==
    (Constructed /\ last.straight /\ Ended) =>
        \/ pc = "halted" /\ last.binary = Terminator
        \/ /\ pc = "fatal" /\ last.stage = "fetch"
           /\ m_gp[PC] = <<0, m_segment[CS].m_end + 1>>

\* how a straight run ends: halted on a word run() takes for the
\* terminator, or fatal, in the fetch past CS.end at the latest
EndsHaltedOrFatal ==
    (Constructed /\ last.straight /\ Ended /\ nfetch = CSSize + 1) =>
        /\ pc = "fatal" /\ last.stage = "fetch"
        /\ m_gp[PC] = <<0, m_segment[CS].m_end + 1>>

\* C37 as stated: a run in which no fetched instruction is J-type and no
\* retired instruction has Rd = 15 always ends after at most |CS| + 1
\* fetches, either halted normally at a terminator word or fatal when PC
\* passes CS.end.
C37_StraightRunEndsAsStated ==
    /\ [](FetchBound /\ EndsAsStated)
    /\ <>(~last.straight \/ Ended \/ Cut)

\* C37: a run in which no fetched instruction is J-type and no instruction
\* with Rd = 15 completes always ends after at most |CS| + 1 fetches,
\* halted or fatal; if it makes all |CS| + 1 fetches it ends fatally in the
\* last one, with PC just past CS.end.
C37_StraightRunEnds ==
    /\ [](FetchBound /\ EndsHaltedOrFatal)
    /\ <>(~last.straight \/ Ended \/ Cut)

\* a straight run went through the whole code segment and ended in the
\* fetch past its end
C37_Witness ==
    /\ Constructed /\ last.straight /\ pc = "fatal" /\ last.stage = "fetch"
    /\ nfetch = CSSize + 1 /\ CSSize >= 3

\* the segments the file gave a range to, as the Loader hands them over
ParsedSegments == DOMAIN segment_config \ {SS}

ParsedMap == [sr \in ParsedSegments |-> segment_config[sr]]

Apart(r1, r2) == r1.m_end < r2.m_start \/ r2.m_end < r1.m_start

\* the file gave a range to each of ds, es and ts, the three ranges are
\* pairwise disjoint and the largest end is below MEM_SIZE - 1
ThreeDisjointBelowTop ==
    /\ ParsedSegments = {DS, ES, CS}
    /\ \A a \in ParsedSegments : \A b \in ParsedSegments \ {a} :
           Apart(segment_config[a], segment_config[b])
    /\ maxEnd(ParsedMap) < MemorySize - 1

\* the Core is constructed with the map of the Loader
Constructing == pc = "start" /\ pc' # "start" /\ file # <<>> /\ ParsedSegments # {}

LoadedInto(memory, rng, words) ==
    [a \in Addresses |->
        IF rng.m_start <= a /\ a <= rng.m_end /\ a - rng.m_start < Len(words)
        THEN words[a - rng.m_start + 1]
        ELSE memory[a]]

\* C39: instructionLoader writes the i-th word given to memory[CS.start + i]
\* and dataLoader the i-th word given to memory[DS.start + i], in order and
\* only while the address is no more than the end of the segment: the words
\* beyond the capacity of the segment are dropped and no address outside CS
\* (or DS) is written by loading.
C39_LoadersFillSegment ==
    [][/\ (pc = "constructed" /\ pc' = "data_loaded") =>
              m_memory' = LoadedInto(m_memory, m_segment[DS], data)
       /\ (pc = "data_loaded" /\ pc' = "running") =>
              m_memory' = LoadedInto(m_memory, m_segment[CS], instructions)]_vars

\* the program had more words than the code segment holds: the segment is
\* full, the data is in its segment and the slot after the code segment is
\* as it was
C39_Witness ==
    /\ pc = "running" /\ nfetch = 0
    /\ Len(instructions) > CSSize
    /\ m_memory[m_segment[CS].m_end] = instructions[CSSize]
    /\ m_memory[m_segment[CS].m_end + 1] = Zero
    /\ instructions[CSSize + 1] # Zero
    /\ m_memory[m_segment[DS].m_start] = data[1]

\* the segments the address lies in (none when it lies in a gap)
SegmentsOf(address) == { sr \in segment_registers : InsideRange(address, m_segment[sr]) }

\* C40: LDR and STR are checked against the whole memory only, not against
\* the segments: a STR (a LDR) whose address is in [0, MEM_SIZE) succeeds
\* whichever segment or gap the address lies in, CS included, and one whose
\* address is not is fatal; and the word a fetch decodes and executes is the
\* word the memory holds at that address when it is fetched, a word stored
\* there by a STR included.
C40_StoreIsNotSegmented ==
    LET address == RegAtExecute(last.instruction.m_Rm)
    IN  /\ Executed(STR) =>
              IF InMemory(address)
              THEN /\ last.stage # "memory"
                   /\ m_memory[address[2]] = RegAtExecute(last.instruction.m_Rd)
              ELSE pc = "fatal" /\ last.stage = "memory" /\ SegmentsOf(address) = {}
        /\ Executed(LDR) =>
              IF InMemory(address)
              THEN last.stage # "memory"
              ELSE pc = "fatal" /\ last.stage = "memory" /\ SegmentsOf(address) = {}
        /\ Fetched =>
              /\ InsideRange(last.addr, m_segment[CS])
              /\ last.binary = last.mem[last.addr[2]]
              /\ last.instruction = decode(last.binary)

\* the word of NOT R0 was stored at address 4 of a code segment into which
\* three words had been loaded, the fifth fetch read it from there and
\* executed it: R0 is all ones
C40_Witness ==
    /\ Len(instructions) = 3 /\ Prog(3).m_code = STR
    /\ nfetch = 5 /\ last.addr = <<0, 4>> /\ CS \in SegmentsOf(last.addr)
    /\ m_segment[CS].m_start = 0
    /\ last.binary = Encode(Ut, NOT, 0, 0, 0)
    /\ last.outcome = "exec" /\ last.gp[R0] = Zero /\ m_gp[R0] = AllOnes
====
